---- MODULE Spec2Model ----
(***************************************************************************)
(* State-machine model of the synthesis route finder: the manufacturer     *)
(* store (ApiManufacturerService), manufacturer discovery, the buyer       *)
(* finder pipeline (parse -> validate -> persist into viruj), and the      *)
(* cooperative cancellation of analysis / prediction runs.                 *)
(*                                                                         *)
(* Text is modelled as a sequence of one-character strings so that the     *)
(* string operations of the code (strip, lower, split, substring tests,    *)
(* SQL LIKE) are computed, not assumed.                                    *)
(***************************************************************************)
EXTENDS Integers, Sequences, FiniteSets, TLC

VARIABLES
    table,      \* API_manufacturers table: sequence of rows in rowid order
    clock,      \* logical time read by datetime.utcnow()
    pc,         \* position of the manufacturer service caller
    call,       \* locals of the manufacturer call in progress
    last,       \* outcome of the last completed manufacturer call
    budget,     \* storage faults the environment may still inject
    viruj,      \* viruj table: sequence of committed buyer rows
    wlock,      \* holder of the database write lock (0 = free)
    req,        \* per find_api_buyers request: position and locals
    impl,       \* which api_buyer_finder copy serves the requests: "rf" for
                \* synthesis_route_finder/synthesis_engine, "se" for synthesis_engine
    apc,        \* position of the analysis / prediction run
    run,        \* locals of the analysis / prediction run
    stop_event, \* the threading.Event of the run
    doc,        \* markdown handed to enhanced_parse_markdown_table
    parsed,     \* result of enhanced_parse_markdown_table
    patent,     \* a text and an API name handed to the patent classifier of
                \* SynthesisAnalyzer, and what it returned
    vcall,      \* a frame handed to validate_and_filter_results, and what it
                \* returned
    session_storage, \* utils.session_storage: session id -> session data
    stop_events,     \* app.stop_events: session id -> Event object (0: no entry)
    progress_queues, \* app.progress_queues: session id -> Queue object (0: no entry)
    events,     \* the Event objects created so far: whether each is set
    queues,     \* the Queue objects created so far: the items each holds
    workers,    \* the analysis and prediction threads started so far
    streams,    \* the progress streams opened so far
    stoplog     \* the last stop request and its answer

mfrVars == <<table, clock, pc, call, last, budget>>
buyerVars == <<viruj, wlock, req, impl>>
runVars == <<apc, run, stop_event>>
parseVars == <<doc, parsed>>
appVars ==
    <<session_storage, stop_events, progress_queues, events, queues, workers, streams, stoplog>>
vars == <<table, clock, pc, call, last, budget, viruj, wlock, req, impl, apc, run, stop_event, doc, parsed, patent, vcall, appVars>>

----------------------------------------------------------------------------
(* Text primitives (Python str / SQL text semantics)                       *)

\* the grave accent of a code fence, which a TLA+ string cannot hold
Backtick == "grave"

UpperAlpha == <<"A","B","C","D","E","F","G","H","I","J","K","L","M","N","O","P","Q","R","S","T","U","V","W","X","Y","Z">>
LowerAlpha == <<"a","b","c","d","e","f","g","h","i","j","k","l","m","n","o","p","q","r","s","t","u","v","w","x","y","z">>
Ascii == <<" ","!","\"","#","$","%","&","'","(",")","*","+",",","-",".","/","0","1","2","3","4","5","6","7","8","9",":",";","<","=",">","?","@","A","B","C","D","E","F","G","H","I","J","K","L","M","N","O","P","Q","R","S","T","U","V","W","X","Y","Z","[","\\","]","^","_","a","b","c","d","e","f","g","h","i","j","k","l","m","n","o","p","q","r","s","t","u","v","w","x","y","z","{","|","}","~">>

AsciiIndex == [c \in {Ascii[i] : i \in 1..Len(Ascii)} |->
                  CHOOSE i \in 1..Len(Ascii) : Ascii[i] = c]

\* code point order of the characters used; control characters sort first
Ord(c) == IF c \in DOMAIN AsciiIndex THEN 31 + AsciiIndex[c] ELSE 10

LowerOf == [c \in {UpperAlpha[i] : i \in 1..26} |->
               LowerAlpha[CHOOSE i \in 1..26 : UpperAlpha[i] = c]]

LowerChar(c) == IF c \in DOMAIN LowerOf THEN LowerOf[c] ELSE c

\* str.lower()
Lower(s) == [i \in 1..Len(s) |-> LowerChar(s[i])]

IsSpace(c) == c \in {" ", "\t", "\n", "\r"}

RECURSIVE LStrip(_)
LStrip(s) == IF s # <<>> /\ IsSpace(Head(s)) THEN LStrip(Tail(s)) ELSE s

RECURSIVE RStrip(_)
RStrip(s) == IF s # <<>> /\ IsSpace(s[Len(s)]) THEN RStrip(SubSeq(s, 1, Len(s) - 1)) ELSE s

\* str.strip()
Strip(s) == RStrip(LStrip(s))

\* p in s
IsSubstr(p, s) == \E i \in 0..(Len(s) - Len(p)) : SubSeq(s, i + 1, i + Len(p)) = p

\* s.startswith(p)
StartsWith(s, p) == Len(p) <= Len(s) /\ SubSeq(s, 1, Len(p)) = p

\* s.endswith(p)
EndsWith(s, p) == Len(p) <= Len(s) /\ SubSeq(s, Len(s) - Len(p) + 1, Len(s)) = p

\* a < b for Python strings (code point order)
RECURSIVE StrLess(_, _)
StrLess(a, b) ==
    IF b = <<>> THEN FALSE
    ELSE IF a = <<>> THEN TRUE
    ELSE IF Head(a) = Head(b) THEN StrLess(Tail(a), Tail(b))
    ELSE Ord(Head(a)) < Ord(Head(b))

\* insert x into an ascending list, after equal elements
RECURSIVE InsertSorted(_, _, _)
InsertSorted(x, list, i) ==
    IF i > Len(list) THEN Append(list, x)
    ELSE IF StrLess(x, list[i]) THEN SubSeq(list, 1, i - 1) \o <<x>> \o SubSeq(list, i, Len(list))
    ELSE InsertSorted(x, list, i + 1)

\* sorted(S) for a set of strings
RECURSIVE SortedList(_)
SortedList(S) ==
    IF S = {} THEN <<>>
    ELSE LET x == CHOOSE y \in S : TRUE
         IN InsertSorted(x, SortedList(S \ {x}), 1)

\* index of the first sep in s at or after position from, 0 if none
NextSep(s, sep, from) ==
    IF \E i \in from..Len(s) : s[i] = sep
    THEN CHOOSE i \in from..Len(s) : s[i] = sep /\ \A j \in from..(i - 1) : s[j] # sep
    ELSE 0

\* s.split(sep) for a one-character separator: always at least one token
RECURSIVE SplitFrom(_, _, _)
SplitFrom(s, sep, start) ==
    LET k == NextSep(s, sep, start)
    IN IF k = 0 THEN <<SubSeq(s, start, Len(s))>>
       ELSE <<SubSeq(s, start, k - 1)>> \o SplitFrom(s, sep, k + 1)

Split(s, sep) == SplitFrom(s, sep, 1)

\* SQL: s LIKE p, with % and _ wildcards, ASCII case-insensitive
RECURSIVE LikeMatch(_, _)
LikeMatch(p, s) ==
    IF p = <<>> THEN s = <<>>
    ELSE IF Head(p) = "%"
         THEN LikeMatch(Tail(p), s) \/ (s # <<>> /\ LikeMatch(p, Tail(s)))
         ELSE /\ s # <<>>
              /\ (Head(p) = "_" \/ LowerChar(Head(p)) = LowerChar(Head(s)))
              /\ LikeMatch(Tail(p), Tail(s))

Range(seq) == {seq[i] : i \in 1..Len(seq)}

\* a pandas DataFrame of text cells: column names and rows of cells
Frame(headers, rows) == [headers |-> headers, rows |-> rows]
EmptyFrame == Frame(<<>>, <<>>)

\* the parser has not returned yet
NotParsed == [returned |-> FALSE, frame |-> EmptyFrame]

\* the classifier has not been called
NoPatent ==
    [api_name |-> <<>>, text |-> <<>>, classified |-> FALSE, is_synthesis |-> FALSE,
     metadata |-> <<>>, generated |-> FALSE, variants |-> {},
     normalized |-> FALSE, names |-> <<>>,
     judged |-> FALSE, extracted |-> FALSE, scores |-> <<>>, verdict |-> <<>>]

\* the validator has not been called
NoVcall == [df |-> EmptyFrame, api |-> <<>>, outcome |-> "none", result |-> EmptyFrame]


\* session ids handed out by the web application
Sids == {1}

\* no session
Nil == [api_name |-> "none"]

NoStop == [status |-> 0, event |-> 0]

\* the web application has served no request
AppOff ==
    /\ session_storage = [sid \in Sids |-> Nil]
    /\ stop_events = [sid \in Sids |-> 0]
    /\ progress_queues = [sid \in Sids |-> 0]
    /\ events = <<>> /\ queues = <<>> /\ workers = <<>> /\ streams = <<>>
    /\ stoplog = NoStop
----------------------------------------------------------------------------
(* Manufacturer store: ApiManufacturerService                              *)

MaxRetries == 5
SkipBatchSize == 30
\* bad_import_timestamp: rows imported at this instant are hidden from query
BadTs == 0

\* bounds of the model: write calls per behaviour (clock ticks), storage
\* faults per behaviour, rows already stored for the API being discovered
MaxClock == 4
MaxFaults == 2
MaxExisting == 31

MfrRecord(a, m, c, u, p, url, src) ==
    [api_name |-> a, manufacturer |-> m, country |-> c, usdmf |-> u, cep |-> p,
     source_url |-> url, source_name |-> src]

\* records handed to insert_records / read from the sheet; a missing column
\* or NaN cell is the empty text after fillna("")
RecAcme == MfrRecord(<<"a","s","a">>, <<"A","c","m","e">>, <<"I","N">>, <<"Y","e","s">>, <<"N","o">>, <<"u">>, <<"s">>)
RecAcmePadded == MfrRecord(<<"a","s","a">>, <<" ","A","c","m","e"," ">>, <<"I","N"," ">>, <<"N","o">>, <<"N","o">>, <<>>, <<>>)
RecAcmeLower == MfrRecord(<<"a","s","a">>, <<"a","c","m","e">>, <<"I","N">>, <<"N","o">>, <<"Y","e","s">>, <<>>, <<>>)
RecBolt == MfrRecord(<<"A","s","a"," ","U">>, <<"B","o","l","t">>, <<"I","N",","," ","S","A">>, <<"Y","e","s">>, <<"Y","e","s">>, <<"u">>, <<>>)
RecNoApi == MfrRecord(<<" ">>, <<"B","o","l","t">>, <<"I","N">>, <<"N","o">>, <<"N","o">>, <<>>, <<>>)

MfrBatches ==
    { <<>>, <<RecNoApi>>, <<RecAcme>>, <<RecAcmePadded, RecAcme>>, <<RecAcme, RecBolt>>,
      <<RecAcmeLower, RecNoApi>>, <<RecBolt, RecBolt>> }

MfrSheets == { <<RecNoApi>>, <<RecAcmePadded, RecBolt>> }

\* the UNIQUE(api_name, manufacturer, country) key of _ensure_table
MfrKey(r) == <<r.api_name, r.manufacturer, r.country>>

\* insert_records: astype(str).str.strip() on every column
StripRecord(r) ==
    MfrRecord(Strip(r.api_name), Strip(r.manufacturer), Strip(r.country), Strip(r.usdmf),
              Strip(r.cep), Strip(r.source_url), Strip(r.source_name))

\* insert_records / _normalize_dataframe: strip, then drop rows whose api_name
\* or manufacturer is empty
RECURSIVE NormalizeRecords(_)
NormalizeRecords(records) ==
    IF records = <<>> THEN <<>>
    ELSE LET r == StripRecord(Head(records))
         IN (IF r.api_name # <<>> /\ r.manufacturer # <<>> THEN <<r>> ELSE <<>>)
            \o NormalizeRecords(Tail(records))

\* _bulk_insert: rows_to_insert
Payload(r, source_file, now) ==
    [api_name |-> r.api_name, manufacturer |-> r.manufacturer, country |-> r.country,
     usdmf |-> r.usdmf, cep |-> r.cep, source_file |-> source_file, imported_at |-> now,
     source_url |-> r.source_url, source_name |-> r.source_name]

RowsToInsert(df, source_file, now) == [i \in 1..Len(df) |-> Payload(df[i], source_file, now)]

\* a plain INSERT into a table without the UNIQUE constraint
InsertAlways(rows, payload) == [rows |-> Append(rows, payload), rowcount |-> 1]

\* INSERT OR REPLACE: the conflicting row is overwritten in place
InsertOrReplace(rows, payload) ==
    IF \E i \in 1..Len(rows) : MfrKey(rows[i]) = MfrKey(payload)
    THEN [rows |-> [i \in 1..Len(rows) |->
                      IF MfrKey(rows[i]) = MfrKey(payload) THEN payload ELSE rows[i]],
          rowcount |-> 1]
    ELSE [rows |-> Append(rows, payload), rowcount |-> 1]

\* INSERT OR IGNORE / ON CONFLICT DO NOTHING against the UNIQUE constraint
InsertOrIgnore(rows, payload) ==
    IF \E i \in 1..Len(rows) : MfrKey(rows[i]) = MfrKey(payload)
    THEN [rows |-> rows, rowcount |-> 0]
    ELSE [rows |-> Append(rows, payload), rowcount |-> 1]

\* one pass of the loop body of _bulk_insert over the first k payloads, inside
\* one transaction that starts from the committed rows
RECURSIVE ExecStatements(_, _, _, _, _)
ExecStatements(rows, payloads, k, added, inserted_rows) ==
    IF k = 0 \/ payloads = <<>>
    THEN [rows |-> rows, added |-> added, inserted_rows |-> inserted_rows]
    ELSE LET result == InsertOrIgnore(rows, Head(payloads))
         IN ExecStatements(result.rows, Tail(payloads), k - 1,
                           IF result.rowcount # 0 THEN added + result.rowcount ELSE added,
                           IF result.rowcount # 0
                           THEN Append(inserted_rows, Head(payloads))
                           ELSE inserted_rows)

\* the dict returned by query for one row (source_file is not selected)
QueryRow(r) ==
    [api_name |-> r.api_name, manufacturer |-> r.manufacturer, country |-> r.country,
     usdmf |-> r.usdmf, cep |-> r.cep, imported_at |-> r.imported_at,
     source_url |-> r.source_url, source_name |-> r.source_name]

\* WHERE clause of query
QueryMatches(r, api_filter, country_filter) ==
    /\ LikeMatch(Lower(<<"%">> \o api_filter \o <<"%">>), Lower(r.api_name))
    /\ LikeMatch(Lower(<<"%">> \o country_filter \o <<"%">>), Lower(r.country))
    /\ r.imported_at # BadTs

RECURSIVE FilterRows(_, _, _)
FilterRows(rows, api_filter, country_filter) ==
    IF rows = <<>> THEN <<>>
    ELSE (IF QueryMatches(Head(rows), api_filter, country_filter)
          THEN <<QueryRow(Head(rows))>> ELSE <<>>)
         \o FilterRows(Tail(rows), api_filter, country_filter)

\* ORDER BY manufacturer COLLATE NOCASE / LOWER(manufacturer); ties in rowid order
RECURSIVE InsertByManufacturer(_, _, _)
InsertByManufacturer(r, list, i) ==
    IF i > Len(list) THEN Append(list, r)
    ELSE IF StrLess(Lower(r.manufacturer), Lower(list[i].manufacturer))
         THEN SubSeq(list, 1, i - 1) \o <<r>> \o SubSeq(list, i, Len(list))
         ELSE InsertByManufacturer(r, list, i + 1)

RECURSIVE OrderByManufacturer(_, _)
OrderByManufacturer(rows, n) ==
    IF n = 0 THEN <<>>
    ELSE InsertByManufacturer(rows[n], OrderByManufacturer(rows, n - 1), 1)

\* query(api_name, country) on a reachable store
Query(rows, api_name, country) ==
    LET api_filter == Strip(api_name)
        country_filter == Strip(country)
    IN IF api_filter = <<>> \/ country_filter = <<>> THEN <<>>
       ELSE LET found == FilterRows(rows, api_filter, country_filter)
            IN OrderByManufacturer(found, Len(found))

\* arguments tried for query / discover
ApiArgs == { <<"a","s","a">>, <<" ","A","S","A"," ">>, <<>> }
CountryArgs == { <<"i","n">> }

NoCall ==
    [op |-> "none", api |-> <<>>, country |-> <<>>, source_file |-> <<>>, payloads |-> <<>>,
     attempt |-> 0, added |-> 0, inserted_rows |-> <<>>, pre |-> <<>>, existing |-> <<>>]

NoResult ==
    [op |-> "none", outcome |-> "none", api |-> <<>>, country |-> <<>>, payloads |-> <<>>,
     count |-> 0, rows |-> <<>>, pre |-> <<>>, existing |-> <<>>, all |-> <<>>,
     attempts |-> 0, success |-> TRUE]

----------------------------------------------------------------------------
(* Manufacturer discovery: ApiManufacturerDiscoveryService                 *)

TrustedDomains ==
    { <<"p","h","a","r","m","a","c","o","m","p","a","s","s",".","c","o","m">>, <<"p","h","a","r","m","a","o","f","f","e","r",".","c","o","m">>, <<"o","r","a","n","g","e","b","o","o","k",".","f","d","a",".","g","o","v">>, <<"f","d","a",".","g","o","v">>,
      <<"e","m","a",".","e","u","r","o","p","a",".","e","u">>, <<"c","d","s","c","o",".","g","o","v",".","i","n">>, <<"w","h","o",".","i","n","t">>, <<"d","c","a","t",".","o","r","g">>,
      <<"s","c","r","i","p",".","p","h","a","r","m","a","i","n","t","e","l","l","i","g","e","n","c","e",".","i","n","f","o","r","m","a",".","c","o","m">> }

\* index of the first occurrence of p in s, 0 if none
FindStr(s, p) ==
    IF IsSubstr(p, s)
    THEN 1 + (CHOOSE i \in 0..(Len(s) - Len(p)) :
                 /\ SubSeq(s, i + 1, i + Len(p)) = p
                 /\ \A j \in 0..(i - 1) : SubSeq(s, j + 1, j + Len(p)) # p)
    ELSE 0

\* urlparse(url).scheme
UrlScheme(url) ==
    LET k == FindStr(url, <<":","/","/">>)
    IN IF k > 1 THEN Lower(SubSeq(url, 1, k - 1)) ELSE <<>>

\* urlparse(url).netloc: from "//" to the next "/", "?" or "#"
UrlNetloc(url) ==
    LET k == FindStr(url, <<":","/","/">>)
        rest == SubSeq(url, k + 3, Len(url))
        stops == {i \in 1..Len(rest) : rest[i] \in {"/", "?", "#"}}
        end == IF stops = {} THEN Len(rest)
               ELSE (CHOOSE i \in stops : \A j \in stops : i <= j) - 1
    IN IF k > 1 THEN SubSeq(rest, 1, end) ELSE <<>>

\* _is_valid_source
IsValidSource(url) ==
    /\ url # <<>>
    /\ UrlScheme(Strip(url)) = <<"h","t","t","p","s">>
    /\ LET domain == Lower(UrlNetloc(Strip(url)))
       IN \E trusted \in TrustedDomains :
             domain = trusted \/ EndsWith(domain, <<".">> \o trusted)

StripAll(parts) == [i \in 1..Len(parts) |-> Strip(parts[i])]

YesNo(cell) == IF Lower(Strip(cell)) \in { <<"y","e","s">>, <<"t">> } THEN <<"Y","e","s">> ELSE <<"N","o">>

\* _extract_manufacturers, the loop over the lines of the markdown
RECURSIVE ExtractLines(_, _, _, _)
ExtractLines(lines, api_name, country, existing_lower) ==
    IF lines = <<>> THEN <<>>
    ELSE LET line == Head(lines)
             rest == ExtractLines(Tail(lines), api_name, country, existing_lower)
             raw_parts == StripAll(Split(line, "|"))
             parts == SubSeq(raw_parts, 2, Len(raw_parts) - 1)
         IN IF /\ IsSubstr(<<"|">>, line)
               /\ ~StartsWith(Lower(line), <<"|"," ","m","a","n","u","f","a","c","t","u","r","e","r","s">>)
               /\ ~StartsWith(line, <<"|","-","-","-">>)
               /\ Len(raw_parts) >= 8
               /\ Len(parts) >= 6
               /\ Lower(parts[1]) \notin existing_lower
               /\ IsValidSource(parts[6])
               /\ IsSubstr(Lower(country), Lower(parts[2]))
            THEN <<MfrRecord(api_name, parts[1], parts[2], YesNo(parts[3]), YesNo(parts[4]),
                             parts[6], parts[5])>> \o rest
            ELSE rest

ExtractManufacturers(markdown_output, api_name, country, skip_batch) ==
    IF markdown_output = <<>> THEN <<>>
    ELSE ExtractLines(Split(markdown_output, "\n"), api_name, country,
                      {Lower(skip_batch[i]) : i \in 1..Len(skip_batch)})

\* skip_list of discover
SkipList(existing_records) ==
    SortedList({Lower(Strip(existing_records[i].manufacturer)) :
                   i \in {j \in 1..Len(existing_records) : existing_records[j].manufacturer # <<>>}})

\* batches of discover: slices of 30 names, one empty batch when nothing is known
Batches(skip_list) ==
    IF skip_list = <<>> THEN << <<>> >>
    ELSE [b \in 1..((Len(skip_list) + SkipBatchSize - 1) \div SkipBatchSize) |->
             SubSeq(skip_list, (b - 1) * SkipBatchSize + 1,
                    IF b * SkipBatchSize < Len(skip_list) THEN b * SkipBatchSize
                    ELSE Len(skip_list))]

\* the loop over the batches in discover: stop once a batch produced records;
\* outputs[b] is the Groq answer to the b-th call (empty when the search or
\* the model gave nothing)
RECURSIVE DiscoverLoop(_, _, _, _, _)
DiscoverLoop(api_name, country, batches, outputs, b) ==
    IF b > Len(batches) THEN <<>>
    ELSE LET records == ExtractManufacturers(outputs[b], api_name, country, batches[b])
         IN IF records # <<>> THEN records
            ELSE DiscoverLoop(api_name, country, batches, outputs, b + 1)

Digits == <<"0","1","2","3","4","5","6","7","8","9">>
\* a stored manufacturer name m01, m02, ...
StoredName(i) == <<"m", Digits[(i \div 10) + 1], Digits[(i % 10) + 1]>>

StoredRow(a, m, c, at) ==
    [api_name |-> a, manufacturer |-> m, country |-> c, usdmf |-> <<"N","o">>, cep |-> <<"N","o">>,
     source_file |-> "sheet", imported_at |-> at, source_url |-> <<>>, source_name |-> <<>>]

\* stores left by earlier runs of the program
EmptyTable == <<>>
LegacyTable ==
    << StoredRow(<<"a","s","a">>, <<"A","c","m","e">>, <<"I","N">>, 1),
       StoredRow(<<"A","s","a"," ","U">>, <<"B","o","l","t">>, <<"I","N",","," ","S","A">>, BadTs) >>
BigTable == [i \in 1..MaxExisting |-> StoredRow(<<"a","s","a">>, StoredName(i), <<"I","N">>, 1)]

TableHeader == <<"|"," ","m","a","n","u","f","a","c","t","u","r","e","r","s"," ","|"," ","c","o","u","n","t","r","y"," ","|"," ","u","s","d","m","f"," ","|"," ","c","e","p"," ","|"," ","s","o","u","r","c","e","_","n","a","m","e"," ","|"," ","s","o","u","r","c","e","_","u","r","l"," ","|">>
TableRule == <<"|","-","-","-","|","-","-","-","|","-","-","-","|","-","-","-","|","-","-","-","|","-","-","-","|">>

JoinLines(a, b) == a \o <<"\n">> \o b

\* answers of the Groq model
GroqOutputs ==
    { <<>>,
      JoinLines(JoinLines(TableHeader, TableRule),
                JoinLines(<<"|"," ","A","C","M","E"," ","|"," ","I","N"," ","|"," ","y","e","s"," ","|"," ","n","o"," ","|"," ","F","D","A"," ","|"," ","h","t","t","p","s",":","/","/","w","w","w",".","f","d","a",".","g","o","v","/","a"," ","|">>,
                          <<"|"," ","Z","e","d"," ","|"," ","I","N"," ","|"," ","t"," ","|"," ","N","o"," ","|"," ","E","M","A"," ","|"," ","h","t","t","p","s",":","/","/","e","m","a",".","e","u","r","o","p","a",".","e","u","/","z"," ","|">>)),
      JoinLines(JoinLines(<<"H","e","r","e"," ","i","s"," ","t","h","e"," ","t","a","b","l","e",":">>, TableHeader),
                JoinLines(<<"|"," ","M","3","1"," ","|"," ","I","N"," ","|"," ","n","o"," ","|"," ","n","o"," ","|"," ","F","D","A"," ","|"," ","h","t","t","p","s",":","/","/","f","d","a",".","g","o","v","/","m"," ","|">>,
                          <<"|"," ","Y","a","r"," ","|"," ","I","N"," ","|"," ","n","o"," ","|"," ","n","o"," ","|"," ","B","l","o","g"," ","|"," ","h","t","t","p",":","/","/","f","d","a",".","g","o","v","/","y"," ","|">>)),
      JoinLines(TableHeader,
                JoinLines(<<"|"," ","m","3","0"," ","|"," ","I","N"," ","|"," ","n","o"," ","|"," ","n","o"," ","|"," ","F","D","A"," ","|"," ","h","t","t","p","s",":","/","/","f","d","a",".","g","o","v","/","m"," ","|">>,
                          <<"|"," ","X","e","n"," ","|"," ","U","S"," ","|"," ","n","o"," ","|"," ","n","o"," ","|"," ","F","D","A"," ","|"," ","h","t","t","p","s",":","/","/","f","d","a",".","g","o","v","/","x"," ","|"," ","e","x","t","r","a"," ","|">>)) }

----------------------------------------------------------------------------
(* Operations of the manufacturer service and of discovery                 *)

nonMfrVars == <<viruj, wlock, req, impl, apc, run, stop_event, doc, parsed, patent, vcall, appVars>>

\* query returns
QueryCall(api_name, country) ==
    /\ pc = "idle"
    /\ last' = [NoResult EXCEPT !.op = "query", !.outcome = "returned", !.api = api_name,
                                !.country = country, !.pre = table,
                                !.rows = Query(table, api_name, country)]
    /\ UNCHANGED <<table, clock, pc, call>>
    /\ UNCHANGED <<budget, nonMfrVars>>

\* query: engine.begin() or the SELECT fails; nothing in query catches it
QueryFails(api_name, country) ==
    /\ pc = "idle"
    /\ Strip(api_name) # <<>> /\ Strip(country) # <<>>
    /\ last' = [NoResult EXCEPT !.op = "query", !.outcome = "raised", !.api = api_name,
                                !.country = country, !.pre = table]
    /\ UNCHANGED <<table, clock, pc, call>>
    /\ budget > 0
    /\ budget' = budget - 1
    /\ UNCHANGED nonMfrVars

\* entry of _bulk_insert with a non-empty frame
EnterBulk(op, df, source_file, existing, api_name, country) ==
    /\ pc' = "bulk"
    /\ call' = [NoCall EXCEPT !.op = op, !.api = api_name, !.country = country,
                              !.source_file = source_file,
                              !.payloads = RowsToInsert(df, source_file, clock),
                              !.pre = table, !.existing = existing]
    /\ clock' = clock + 1
    /\ last' = NoResult
    /\ UNCHANGED table

\* insert_records(records): normalise, then _bulk_insert
InsertRecords(records) ==
    /\ pc = "idle"
    /\ clock < MaxClock
    /\ LET df == NormalizeRecords(records)
       IN IF df = <<>>
          THEN /\ last' = [NoResult EXCEPT !.op = "insert_records", !.outcome = "returned",
                                           !.pre = table]
               /\ UNCHANGED <<table, clock, pc, call>>
          ELSE EnterBulk("insert_records", df, "discovery", <<>>, <<>>, <<>>)
    /\ UNCHANGED <<budget, nonMfrVars>>

\* sync_from_excel: the sheet is missing, unreadable, empty or without the
\* expected columns
SyncNothing ==
    /\ pc = "idle"
    /\ last' = [NoResult EXCEPT !.op = "sync_from_excel", !.outcome = "returned",
                                !.success = FALSE, !.pre = table]
    /\ UNCHANGED <<table, clock, pc, call>>
    /\ UNCHANGED <<budget, nonMfrVars>>

\* sync_from_excel with a readable sheet
SyncFromExcel(sheet) ==
    /\ pc = "idle"
    /\ clock < MaxClock
    /\ sheet # <<>>
    /\ LET normalized == NormalizeRecords(sheet)
       IN IF normalized = <<>>
          THEN /\ last' = [NoResult EXCEPT !.op = "sync_from_excel", !.outcome = "returned",
                                           !.success = FALSE, !.pre = table]
               /\ UNCHANGED <<table, clock, pc, call>>
          ELSE EnterBulk("sync_from_excel", normalized, "sheet", <<>>, <<>>, <<>>)
    /\ UNCHANGED <<budget, nonMfrVars>>

\* the caller's continuation once _bulk_insert returned (added, inserted_rows)
BulkReturns(added, inserted_rows) ==
    IF call.op = "discover"
    THEN /\ pc' = "refresh"
         /\ call' = [call EXCEPT !.added = added, !.inserted_rows = inserted_rows]
         /\ UNCHANGED last
    ELSE /\ pc' = "idle"
         /\ call' = NoCall
         /\ last' = [NoResult EXCEPT !.op = call.op, !.outcome = "returned",
                                     !.payloads = call.payloads, !.pre = call.pre,
                                     !.count = added,
                                     !.rows = IF call.op = "insert_records"
                                              THEN inserted_rows ELSE <<>>,
                                     !.attempts = call.attempt + 1]

\* an exception leaves _bulk_insert and, uncaught, its caller
BulkRaises ==
    /\ pc' = "idle"
    /\ call' = NoCall
    /\ last' = [NoResult EXCEPT !.op = call.op, !.outcome = "raised",
                                !.payloads = call.payloads, !.pre = call.pre,
                                !.api = call.api, !.country = call.country,
                                !.existing = call.existing,
                                !.attempts = call.attempt + 1]

\* one attempt of _bulk_insert that commits
BulkCommit ==
    /\ pc = "bulk"
    /\ LET result == ExecStatements(table, call.payloads, Len(call.payloads),
                                    call.added, call.inserted_rows)
       IN /\ table' = result.rows
          /\ BulkReturns(result.added, result.inserted_rows)
    /\ UNCHANGED clock
    /\ UNCHANGED <<budget, nonMfrVars>>

\* a failed attempt whose statements stay in the table
BulkLockedKeepsRows(k) ==
    /\ pc = "bulk"
    /\ LET result == ExecStatements(table, call.payloads, k, call.added, call.inserted_rows)
       IN /\ table' = result.rows
          /\ IF call.attempt < MaxRetries - 1
             THEN /\ call' = [call EXCEPT !.attempt = @ + 1, !.added = result.added,
                                          !.inserted_rows = result.inserted_rows]
                  /\ UNCHANGED <<pc, last>>
             ELSE BulkRaises
    /\ UNCHANGED clock
    /\ budget > 0
    /\ budget' = budget - 1
    /\ UNCHANGED nonMfrVars

\* one attempt that fails with "database is locked" after k statements (k =
\* number of payloads: at commit); the transaction is rolled back
BulkLocked(k) ==
    /\ pc = "bulk"
    /\ LET result == ExecStatements(table, call.payloads, k, call.added, call.inserted_rows)
       IN IF call.attempt < MaxRetries - 1
          THEN /\ call' = [call EXCEPT !.attempt = @ + 1, !.added = result.added,
                                       !.inserted_rows = result.inserted_rows]
               /\ UNCHANGED <<pc, last>>
          ELSE BulkRaises
    /\ UNCHANGED <<table, clock>>
    /\ budget > 0
    /\ budget' = budget - 1
    /\ UNCHANGED nonMfrVars

\* one attempt that fails with another error: re-raised at once
BulkError ==
    /\ pc = "bulk"
    /\ BulkRaises
    /\ UNCHANGED <<table, clock>>
    /\ budget > 0
    /\ budget' = budget - 1
    /\ UNCHANGED nonMfrVars

\* discover rejects an empty API name or country
DiscoverRejected(api_name, country) ==
    /\ pc = "idle"
    /\ Strip(api_name) = <<>> \/ Strip(country) = <<>>
    /\ last' = [NoResult EXCEPT !.op = "discover", !.outcome = "returned", !.success = FALSE,
                                !.api = api_name, !.country = country, !.pre = table]
    /\ UNCHANGED <<table, clock, pc, call>>
    /\ UNCHANGED <<budget, nonMfrVars>>

\* discover up to the call of insert_records
Discover(api_arg, country_arg) ==
    /\ pc = "idle"
    /\ clock < MaxClock
    /\ LET api_name == Strip(api_arg)
           country == Strip(country_arg)
           existing_records == Query(table, api_name, country)
           batches == Batches(SkipList(existing_records))
       IN /\ api_name # <<>> /\ country # <<>>
          /\ \E outputs \in [1..Len(batches) -> GroqOutputs] :
                LET discovered_records == DiscoverLoop(api_name, country, batches, outputs, 1)
                    df == NormalizeRecords(discovered_records)
                IN IF df # <<>>
                   THEN EnterBulk("discover", df, "groq_discovery", existing_records,
                                  api_name, country)
                   ELSE /\ pc' = "refresh"
                        /\ call' = [NoCall EXCEPT !.op = "discover", !.api = api_name,
                                                  !.country = country, !.pre = table,
                                                  !.existing = existing_records]
                        /\ last' = NoResult
                        /\ UNCHANGED <<table, clock>>
    /\ UNCHANGED <<budget, nonMfrVars>>

\* discover: the first query raises
DiscoverQueryFails(api_arg, country_arg) ==
    /\ pc = "idle"
    /\ Strip(api_arg) # <<>> /\ Strip(country_arg) # <<>>
    /\ last' = [NoResult EXCEPT !.op = "discover", !.outcome = "raised", !.api = api_arg,
                                !.country = country_arg, !.pre = table]
    /\ UNCHANGED <<table, clock, pc, call>>
    /\ budget > 0
    /\ budget' = budget - 1
    /\ UNCHANGED nonMfrVars

\* discover: the refreshing query and the result
DiscoverReturns ==
    /\ pc = "refresh"
    /\ pc' = "idle"
    /\ call' = NoCall
    /\ last' = [NoResult EXCEPT !.op = "discover", !.outcome = "returned",
                                !.api = call.api, !.country = call.country,
                                !.pre = call.pre, !.existing = call.existing,
                                !.payloads = call.payloads,
                                !.rows = call.inserted_rows, !.count = call.added,
                                !.all = Query(table, call.api, call.country),
                                !.attempts = call.attempt + 1]
    /\ UNCHANGED <<table, clock>>
    /\ UNCHANGED <<budget, nonMfrVars>>

\* discover: the refreshing query raises
DiscoverRefreshFails ==
    /\ pc = "refresh"
    /\ BulkRaises
    /\ UNCHANGED <<table, clock>>
    /\ budget > 0
    /\ budget' = budget - 1
    /\ UNCHANGED nonMfrVars

InitOthersOfMfr ==
    /\ viruj = <<>> /\ wlock = 0 /\ req = <<>> /\ impl = "se"
    /\ apc = "off" /\ run = <<>> /\ stop_event = FALSE
    /\ doc = <<>> /\ parsed = NotParsed /\ AppOff
    /\ patent = NoPatent /\ vcall = NoVcall

InitMfr ==
    /\ table \in {EmptyTable, LegacyTable}
    /\ clock = 2
    /\ budget = MaxFaults
    /\ pc = "idle"
    /\ call = NoCall
    /\ last = NoResult
    /\ InitOthersOfMfr

NextMfr ==
    \/ \E a \in ApiArgs, c \in CountryArgs : QueryCall(a, c)
    \/ \E a \in ApiArgs, c \in CountryArgs : QueryFails(a, c)
    \/ \E records \in MfrBatches : InsertRecords(records)
    \/ SyncNothing
    \/ \E sheet \in MfrSheets : SyncFromExcel(sheet)
    \/ BulkCommit
    \/ \E k \in 0..Len(call.payloads) : BulkLocked(k)
    \/ BulkError
    \/ \E a \in ApiArgs, c \in CountryArgs : DiscoverRejected(a, c)
    \/ \E a \in ApiArgs, c \in CountryArgs : Discover(a, c)
    \/ \E a \in ApiArgs, c \in CountryArgs : DiscoverQueryFails(a, c)
    \/ DiscoverReturns
    \/ DiscoverRefreshFails

SpecMfr == InitMfr /\ [][NextMfr]_vars

\* a store that already holds more manufacturers than one skip batch
InitDiscover ==
    /\ table = BigTable
    /\ clock = MaxClock - 1
    /\ budget = 1
    /\ pc = "idle"
    /\ call = NoCall
    /\ last = NoResult
    /\ InitOthersOfMfr

SpecDiscover == InitDiscover /\ [][NextMfr]_vars

----------------------------------------------------------------------------
(* Properties of the manufacturer store and of discovery                   *)

KeysOf(rows) == {MfrKey(rows[i]) : i \in 1..Len(rows)}

\* the payloads of a batch that are absent from the rows stored before the
\* call and are the first of their key in the batch, in batch order
FreshPayloads(pre, payloads) ==
    LET idx == {i \in 1..Len(payloads) :
                   /\ MfrKey(payloads[i]) \notin KeysOf(pre)
                   /\ \A j \in 1..(i - 1) : MfrKey(payloads[j]) # MfrKey(payloads[i])}
    IN [k \in 1..Cardinality(idx) |->
           payloads[CHOOSE i \in idx : Cardinality({j \in idx : j <= i}) = k]]

\* manufacturer names compared ignoring case and surrounding whitespace
SameManufacturer(a, b) == Lower(Strip(a.manufacturer)) = Lower(Strip(b.manufacturer))

\* C1: whatever insert_records / sync_from_excel calls were made, no two rows
\* of the manufacturer table have the same (api_name, manufacturer, country).
C1_UniqueKeys ==
    \A i, j \in 1..Len(table) : i # j => MfrKey(table[i]) # MfrKey(table[j])

\* a call returned whose batch repeated one key and whose key was stored
\* before another call inserted it again
C1_Witness ==
    /\ last.op \in {"insert_records", "sync_from_excel"}
    /\ last.outcome = "returned"
    /\ \E i, j \in 1..Len(last.payloads) :
          i # j /\ MfrKey(last.payloads[i]) = MfrKey(last.payloads[j])
    /\ \E i \in 1..Len(last.payloads) : MfrKey(last.payloads[i]) \in KeysOf(last.pre)
    /\ Len(table) >= 2

\* C2: every insert_records call that returns reports exactly the records it
\* newly inserted: rows are the batch's records whose key was not stored (each
\* key once), inserted is their number, these and no others were added to the
\* table; so a record whose key is already stored gives inserted = 0, rows = [].
C2_ReturnsNewlyInserted ==
    (last.op = "insert_records" /\ last.outcome = "returned")
        => /\ last.rows = FreshPayloads(last.pre, last.payloads)
           /\ last.count = Len(last.rows)
           /\ table = last.pre \o last.rows

\* the duplicate part of C2 alone: a call whose records are all stored already
\* and that was not retried returns inserted = 0 and no rows
C2_Witness ==
    /\ last.op = "insert_records" /\ last.outcome = "returned"
    /\ last.payloads # <<>>
    /\ \A i \in 1..Len(last.payloads) : MfrKey(last.payloads[i]) \in KeysOf(last.pre)
    /\ last.count = 0 /\ last.rows = <<>> /\ table = last.pre

\* C3: no step of query, insert_records, sync_from_excel or discover deletes
\* a stored row or changes one of its fields: every row keeps its place and
\* its content.
C3_RowsNeverChange ==
    [][\A i \in 1..Len(table) : i <= Len(table') /\ table'[i] = table[i]]_vars

\* an insert of an existing key with other field values has returned and the
\* stored row is as it was
C3_Witness ==
    /\ last.op = "insert_records" /\ last.outcome = "returned"
    /\ \E i \in 1..Len(last.pre), k \in 1..Len(last.payloads) :
          /\ MfrKey(last.pre[i]) = MfrKey(last.payloads[k])
          /\ last.pre[i].usdmf # last.payloads[k].usdmf
          /\ table[i] = last.pre[i]

\* C5: discover neither returns in new_records nor inserts a manufacturer
\* whose name equals, ignoring case and surrounding whitespace, that of a
\* record the first query of the call returned.
C5_NeverRediscoversExisting ==
    (last.op = "discover" /\ last.outcome = "returned" /\ last.success)
        => /\ \A i \in 1..Len(last.rows), j \in 1..Len(last.existing) :
                 ~SameManufacturer(last.rows[i], last.existing[j])
           /\ \A i \in (Len(last.pre) + 1)..Len(table), j \in 1..Len(last.existing) :
                 ~SameManufacturer(table[i], last.existing[j])

\* discover returned with more existing records than one skip batch holds
C5_Witness ==
    /\ last.op = "discover" /\ last.outcome = "returned" /\ last.success
    /\ Len(last.existing) > SkipBatchSize
    /\ last.rows # <<>>

\* C6: a storage failure never leaves query or insert_records as an
\* exception: each of them returns.
C6_NoStorageErrorPropagates ==
    last.op \in {"query", "insert_records"} => last.outcome # "raised"

\* a storage failure happened during query or insert_records
C6_Witness ==
    /\ last.op \in {"query", "insert_records"}
    /\ budget < MaxFaults
----------------------------------------------------------------------------
(* Buyer finder: frames, the markdown table parsers and the validators     *)

\* df.empty
IsEmptyFrame(df) == df.headers = <<>> \/ df.rows = <<>>

\* position of a column, 0 when the frame has no such column
ColIndex(headers, name) ==
    IF \E i \in 1..Len(headers) : headers[i] = name
    THEN CHOOSE i \in 1..Len(headers) :
             headers[i] = name /\ \A j \in 1..(i - 1) : headers[j] # name
    ELSE 0

\* row.get(name, default)
Get(headers, row, name, default) ==
    IF ColIndex(headers, name) = 0 THEN default ELSE row[ColIndex(headers, name)]

HasPipe(line) == \E i \in 1..Len(line) : line[i] = "|"

\* a collector that never ends the run: every table line of the answer
RECURSIVE CollectEveryTableLine(_, _, _)
CollectEveryTableLine(lines, i, in_table) ==
    IF i > Len(lines) THEN <<>>
    ELSE (IF HasPipe(lines[i]) /\ ~StartsWith(Strip(lines[i]), <<Backtick,Backtick,Backtick>>)
          THEN <<Strip(lines[i])>> ELSE <<>>)
         \o CollectEveryTableLine(lines, i + 1, in_table)

\* the loop of enhanced_parse_markdown_table that collects table_lines
RECURSIVE CollectTableLines(_, _, _)
CollectTableLines(lines, i, in_table) ==
    IF i > Len(lines) THEN <<>>
    ELSE IF HasPipe(lines[i]) /\ ~StartsWith(Strip(lines[i]), <<Backtick,Backtick,Backtick>>)
         THEN <<Strip(lines[i])>> \o CollectTableLines(lines, i + 1, TRUE)
         ELSE IF in_table /\ Strip(lines[i]) = <<>>
              THEN CollectTableLines(lines, i + 1, in_table)
              ELSE IF in_table /\ ~HasPipe(lines[i]) THEN <<>>
                   ELSE CollectTableLines(lines, i + 1, in_table)

\* [c.strip() for c in line.split("|")[1:-1]]
Cells(line) ==
    LET tokens == Split(line, "|")
    IN [i \in 1..(IF Len(tokens) >= 2 THEN Len(tokens) - 2 ELSE 0) |-> Strip(tokens[i + 1])]

\* every row of data_lines, whatever its cell count
RECURSIVE KeepAllRows(_, _, _)
KeepAllRows(data_lines, i, n) ==
    IF i > Len(data_lines) THEN <<>>
    ELSE <<Cells(data_lines[i])>> \o KeepAllRows(data_lines, i + 1, n)

\* the rows of data_lines whose cell count equals the header's, in order
RECURSIVE KeepRows(_, _, _)
KeepRows(data_lines, i, n) ==
    IF i > Len(data_lines) THEN <<>>
    ELSE (IF Len(Cells(data_lines[i])) = n THEN <<Cells(data_lines[i])>> ELSE <<>>)
         \o KeepRows(data_lines, i + 1, n)

\* enhanced_parse_markdown_table(markdown)
enhanced_parse_markdown_table(markdown) ==
    IF Strip(markdown) = <<>> THEN EmptyFrame
    ELSE LET table_lines == CollectTableLines(Split(Strip(markdown), "\n"), 1, FALSE)
         IN IF Len(table_lines) < 2 THEN EmptyFrame
            ELSE LET headers == Cells(table_lines[1])
                     data_lines == SubSeq(table_lines, 3, Len(table_lines))
                     data == KeepRows(data_lines, 1, Len(headers))
                 IN IF data = <<>> THEN EmptyFrame ELSE Frame(headers, data)

\* the loop of parse_groq_table that collects table_lines
RECURSIVE GroqTableLines(_, _)
GroqTableLines(lines, i) ==
    IF i > Len(lines) THEN <<>>
    ELSE (IF HasPipe(lines[i]) /\ ~StartsWith(Strip(lines[i]), <<Backtick,Backtick,Backtick>>)
          THEN <<Strip(lines[i])>> ELSE <<>>)
         \o GroqTableLines(lines, i + 1)

RECURSIVE GroqRows(_, _, _)
GroqRows(table_lines, i, n) ==
    IF i > Len(table_lines) THEN <<>>
    ELSE LET row_data == Cells(table_lines[i])
         IN (IF /\ HasPipe(table_lines[i])
                /\ ~StartsWith(Strip(table_lines[i]), <<"-","-","-">>)
                /\ Len(row_data) = n
                /\ \E k \in 1..Len(row_data) : row_data[k] # <<>>
             THEN <<row_data>> ELSE <<>>)
            \o GroqRows(table_lines, i + 1, n)

\* parse_groq_table(groq_output, api_name)
parse_groq_table(groq_output, api_name) ==
    LET table_lines == GroqTableLines(Split(Strip(groq_output), "\n"), 1)
    IN IF Len(table_lines) < 2 THEN EmptyFrame
       ELSE LET headers == Cells(table_lines[1])
                data_rows == GroqRows(table_lines, 3, Len(headers))
                k == ColIndex(headers, <<"A","P","I"," ","N","a","m","e">>)
            IN IF data_rows = <<>> THEN EmptyFrame
               ELSE Frame(headers,
                          [r \in 1..Len(data_rows) |->
                              [c \in 1..Len(headers) |->
                                  IF c = k THEN api_name ELSE data_rows[r][c]]])
----------------------------------------------------------------------------
(* Buyer finder: validate_and_filter_results of both implementations       *)

DigitValue == [c \in {Digits[i] : i \in 1..10} |-> (CHOOSE i \in 1..10 : Digits[i] = c) - 1]

\* str.isdigit()
IsDigit(s) == s # <<>> /\ \A i \in 1..Len(s) : s[i] \in DOMAIN DigitValue

\* int(s) for a string of digits
RECURSIVE ToInt(_)
ToInt(s) == IF s = <<>> THEN 0 ELSE 10 * ToInt(SubSeq(s, 1, Len(s) - 1)) + DigitValue[s[Len(s)]]

\* s.rstrip('%')
RECURSIVE RStripPercent(_)
RStripPercent(s) ==
    IF s # <<>> /\ s[Len(s)] = "%" THEN RStripPercent(SubSeq(s, 1, Len(s) - 1)) ELSE s

\* s.strip('%')
RECURSIVE LStripPercent(_)
LStripPercent(s) == IF s # <<>> /\ Head(s) = "%" THEN LStripPercent(Tail(s)) ELSE s

StripPercent(s) == RStripPercent(LStripPercent(s))

\* minimum confidence the route finder's validator accepts
MinConfidence == 50

ColCompany == <<"C","o","m","p","a","n","y">>
ColForm == <<"F","o","r","m">>
ColStrength == <<"S","t","r","e","n","g","t","h">>
ColConfidence == <<"C","o","n","f","i","d","e","n","c","e"," ","(","%",")">>
ColUrl == <<"U","R","L">>
ColInfo == <<"A","d","d","i","t","i","o","n","a","l"," ","I","n","f","o">>
ColSource == <<"V","e","r","i","f","i","c","a","t","i","o","n"," ","S","o","u","r","c","e">>
ColProduct == <<"P","r","o","d","u","c","t"," ","N","a","m","e">>
ColLocation == <<"M","a","n","u","f","a","c","t","u","r","i","n","g"," ","L","o","c","a","t","i","o","n">>

api_only_keywords ==
    { <<"a","p","i"," ","m","a","n","u","f","a","c","t","u","r","e","r">>, <<"a","p","i"," ","s","u","p","p","l","i","e","r">>, <<"b","u","l","k"," ","d","r","u","g">>, <<"r","a","w"," ","m","a","t","e","r","i","a","l">>,
      <<"i","n","t","e","r","m","e","d","i","a","t","e">>, <<"a","c","t","i","v","e"," ","i","n","g","r","e","d","i","e","n","t">>, <<"p","h","a","r","m","a","c","e","u","t","i","c","a","l"," ","i","n","g","r","e","d","i","e","n","t">>,
      <<"c","h","e","m","i","c","a","l"," ","s","u","p","p","l","i","e","r">>, <<"b","u","l","k"," ","s","u","p","p","l","i","e","r">>, <<"a","p","i"," ","o","n","l","y">>, <<"r","a","w"," ","a","p","i">>, <<"b","u","l","k"," ","a","p","i">>,
      <<"c","h","e","m","i","c","a","l"," ","m","a","n","u","f","a","c","t","u","r","e","r">>, <<"i","n","g","r","e","d","i","e","n","t"," ","s","u","p","p","l","i","e","r">> }

import_keywords ==
    { <<"i","m","p","o","r","t","e","r">>, <<"d","i","s","t","r","i","b","u","t","o","r">>, <<"t","r","a","d","i","n","g">>, <<"i","m","p","o","r","t">>, <<"d","i","s","t","r","i","b","u","t","i","o","n">>,
      <<"w","h","o","l","e","s","a","l","e">>, <<"t","r","a","d","e","r">>, <<"i","m","p","o","r","t","i","n","g">>, <<"e","x","p","o","r","t">>, <<"e","x","p","o","r","t","e","r">> }

\* a reading of the confidence cell that keeps a trailing percent sign
RowConfidenceWithPercent(headers, row) ==
    LET confidence_str == Strip(Get(headers, row, ColConfidence, <<"0">>))
    IN IF IsDigit(confidence_str) THEN ToInt(confidence_str) ELSE 0

\* the confidence the route finder's validator reads from a row
RowConfidence(headers, row) ==
    LET confidence_str == RStripPercent(Strip(Get(headers, row, ColConfidence, <<"0">>)))
    IN IF IsDigit(confidence_str) THEN ToInt(confidence_str) ELSE 0

\* f"{company_lower} {additional_info} {verification_source}"
CombinedText(headers, row) ==
    Lower(Strip(Get(headers, row, ColCompany, <<>>))) \o <<" ">>
        \o Lower(Get(headers, row, ColInfo, <<>>)) \o <<" ">>
        \o Lower(Get(headers, row, ColSource, <<>>))

\* the API is named in the product name, form, strength or verification source
ApiMentionedRf(headers, row, api) ==
    \E col \in {ColProduct, ColForm, ColStrength, ColSource} :
        IsSubstr(Lower(api), Lower(Get(headers, row, col, <<>>)))

UrlOk(headers, row) ==
    LET url == Strip(Get(headers, row, ColUrl, <<>>))
    IN url # <<>> /\ (StartsWith(url, <<"h","t","t","p",":","/","/">>) \/ StartsWith(url, <<"h","t","t","p","s",":","/","/">>))

LocationOk(headers, row) ==
    \/ ColIndex(headers, ColLocation) = 0
    \/ ~IsSubstr(<<"i","m","p","o","r","t">>, Lower(Get(headers, row, ColLocation, <<>>)))

\* the checks of one row in the route finder's validate_and_filter_results
RowValidRf(headers, row, api) ==
    /\ Strip(Get(headers, row, ColCompany, <<>>)) # <<>>
    /\ RowConfidence(headers, row) >= MinConfidence
    /\ \A keyword \in api_only_keywords : ~IsSubstr(keyword, CombinedText(headers, row))
    /\ \A keyword \in import_keywords : ~IsSubstr(keyword, CombinedText(headers, row))
    /\ ApiMentionedRf(headers, row, api)
    /\ UrlOk(headers, row)
    /\ LocationOk(headers, row)

\* the checks of one row in the synthesis_engine validate_and_filter_results
RowValidSe(headers, row, api) ==
    /\ Strip(Get(headers, row, ColCompany, <<>>)) # <<>>
    /\ \E col \in {ColForm, ColStrength, ColInfo} :
          IsSubstr(Lower(api), Lower(Get(headers, row, col, <<>>)))

RowValid(copy, headers, row, api) ==
    IF copy = "rf" THEN RowValidRf(headers, row, api) ELSE RowValidSe(headers, row, api)

\* required_columns
RequiredColumns(copy) ==
    IF copy = "rf" THEN {ColCompany, ColForm, ColConfidence, ColUrl}
    ELSE {ColCompany, ColForm, ColStrength, ColInfo}

RECURSIVE ValidRows(_, _, _, _, _)
ValidRows(copy, headers, rows, i, api) ==
    IF i > Len(rows) THEN <<>>
    ELSE (IF RowValid(copy, headers, rows[i], api) THEN <<rows[i]>> ELSE <<>>)
         \o ValidRows(copy, headers, rows, i + 1, api)

\* a validator that accepts every row it is given
AcceptAll(copy, df, api) == df

\* validate_and_filter_results(df, api)
validate_and_filter_results(copy, df, api) ==
    IF IsEmptyFrame(df) THEN df
    ELSE IF \E col \in RequiredColumns(copy) : ColIndex(df.headers, col) = 0 THEN EmptyFrame
    ELSE LET valid_rows == ValidRows(copy, df.headers, df.rows, 1, api)
         IN IF valid_rows = <<>> THEN EmptyFrame ELSE Frame(df.headers, valid_rows)
----------------------------------------------------------------------------
(* Buyer finder: the viruj table and insert_into_viruj                     *)

\* processes serving find_api_buyers requests
Requests == {1, 2}

Other(p) == 3 - p

\* a row of viruj (the timestamps are not modelled)
BuyerRow(api, country, company, form, strength, source, confidence, url, info) ==
    [api |-> api, country |-> country, company |-> company, form |-> form,
     strength |-> strength, verification_source |-> source, confidence |-> confidence,
     url |-> url, additional_info |-> info]

\* UNIQUE(api, country, company)
BuyerKey(r) == <<r.api, r.country, r.company>>

\* the confidence column computed by clean_and_prepare_dataframe: 0 when the
\* frame has no confidence column or the cell is not a number
CleanConfidence(copy, headers, row) ==
    IF ColIndex(headers, ColConfidence) = 0 THEN 0
    ELSE LET x == StripPercent(Get(headers, row, ColConfidence, <<>>))
         IN IF IsDigit(x) THEN ToInt(x) ELSE 0

\* clean_and_prepare_dataframe and the statement parameters built from a row:
\* the columns Company, Form, ... become company, form, ...; api and country
\* are those of the request
InsertData(copy, headers, row, api, country) ==
    BuyerRow(api, country,
             Get(headers, row, ColCompany, <<>>),
             Get(headers, row, ColForm, <<>>),
             Get(headers, row, ColStrength, <<>>),
             Get(headers, row, ColSource, IF copy = "rf" THEN <<>> ELSE <<"W","e","b"," ","S","e","a","r","c","h">>),
             CleanConfidence(copy, headers, row),
             Get(headers, row, ColUrl, <<>>),
             Get(headers, row, ColInfo, <<>>))

\* synthesis_engine insert_into_viruj skips rows without a company name
SkippedCompany(copy, data) ==
    copy = "se" /\ Lower(Strip(data.company)) \in {<<"u","n","k","n","o","w","n">>, <<>>}

BuyerKeys(rows) == {BuyerKey(rows[i]) : i \in 1..Len(rows)}

\* route finder fetch_existing_data: WHERE api = :api AND country = :country
FetchRf(rows, api, country) ==
    SelectSeq(rows, LAMBDA r : r.api = api /\ r.country = country)

\* synthesis_engine fetch_existing_data: trimmed, case-insensitive equality,
\* and a LIKE search when that finds nothing
FetchSe(rows, api, country) ==
    LET exact == SelectSeq(rows, LAMBDA r : /\ Strip(Lower(r.api)) = Strip(Lower(Strip(api)))
                                            /\ Strip(Lower(r.country)) = Strip(Lower(Strip(country))))
        api_pattern == <<"%">> \o Strip(api) \o <<"%">>
        country_pattern == <<"%">> \o Strip(country) \o <<"%">>
        lenient == SelectSeq(rows, LAMBDA r : /\ LikeMatch(api_pattern, r.api)
                                              /\ LikeMatch(country_pattern, r.country))
    IN IF exact # <<>> THEN exact ELSE lenient

fetch_existing_data(copy, rows, api, country) ==
    IF copy = "rf" THEN FetchRf(rows, api, country) ELSE FetchSe(rows, api, country)

\* existing_companies
CompaniesOf(rows) == [i \in 1..Len(rows) |-> rows[i].company]

\* pd.concat of two frames; a cell of a column the frame lacks is NaN
Concat(a, b) ==
    IF IsEmptyFrame(a) THEN b
    ELSE IF IsEmptyFrame(b) THEN a
    ELSE LET extra == SelectSeq(b.headers, LAMBDA h : ColIndex(a.headers, h) = 0)
             headers == a.headers \o extra
         IN Frame(headers,
                  [i \in 1..Len(a.rows) |->
                      [c \in 1..Len(headers) |-> Get(a.headers, a.rows[i], headers[c], <<"n","a","n">>)]]
                  \o [i \in 1..Len(b.rows) |->
                      [c \in 1..Len(headers) |-> Get(b.headers, b.rows[i], headers[c], <<"n","a","n">>)]])

\* drop_duplicates(subset=['Company'], keep='first')
DropDuplicates(df) ==
    LET k == ColIndex(df.headers, ColCompany)
        keep == {i \in 1..Len(df.rows) : \A j \in 1..(i - 1) : df.rows[j][k] # df.rows[i][k]}
    IN Frame(df.headers,
             [n \in 1..Cardinality(keep) |->
                 df.rows[CHOOSE i \in keep : Cardinality({j \in keep : j <= i}) = n]])

\* synthesis_engine find_api_buyers, step 6: the Groq columns are renamed
\* and the missing ones added
RenameHeader(h) ==
    IF h = <<"F","D","F"," ","M","a","n","u","f","a","c","t","u","r","e","r">> THEN ColCompany
    ELSE IF h = <<"P","r","o","d","u","c","t"," ","F","o","r","m">> THEN ColForm
    ELSE IF h = <<"S","o","u","r","c","e"," ","U","R","L">> THEN ColUrl
    ELSE IF h = <<"E","v","i","d","e","n","c","e">> THEN ColInfo
    ELSE h

AddColumn(df, name, value) ==
    IF ColIndex(df.headers, name) # 0 THEN df
    ELSE Frame(Append(df.headers, name), [i \in 1..Len(df.rows) |-> Append(df.rows[i], value)])

NormalizeColumns(df) ==
    IF IsEmptyFrame(df) THEN df
    ELSE LET renamed == Frame([c \in 1..Len(df.headers) |-> RenameHeader(df.headers[c])], df.rows)
         IN IF ColIndex(renamed.headers, ColCompany) = 0 THEN EmptyFrame
            ELSE AddColumn(AddColumn(AddColumn(renamed, ColForm, <<"U","n","k","n","o","w","n">>),
                                     ColStrength, <<"U","n","k","n","o","w","n">>), ColInfo, <<>>)

\* synthesis_engine find_api_buyers, step 7: drop the companies already stored
FilterExisting(df, existing_companies) ==
    IF IsEmptyFrame(df) \/ existing_companies = <<>> THEN df
    ELSE LET k == ColIndex(df.headers, ColCompany)
             known == {Lower(existing_companies[i]) : i \in 1..Len(existing_companies)}
         IN Frame(df.headers, SelectSeq(df.rows, LAMBDA row : Lower(row[k]) \notin known))
----------------------------------------------------------------------------
(* Buyer finder: find_api_buyers as a process per request                  *)

\* storage faults injected while requests are served
BuyerFaults == 1

RfHeader == <<"|"," ","C","o","m","p","a","n","y"," ","|"," ","F","o","r","m"," ","|"," ","S","t","r","e","n","g","t","h"," ","|"," ","C","o","n","f","i","d","e","n","c","e"," ","(","%",")"," ","|"," ","U","R","L"," ","|"," ","V","e","r","i","f","i","c","a","t","i","o","n"," ","S","o","u","r","c","e"," ","|"," ","A","d","d","i","t","i","o","n","a","l"," ","I","n","f","o"," ","|">>
RfRule == <<"|","-","-","-","|","-","-","-","|","-","-","-","|","-","-","-","|","-","-","-","|","-","-","-","|","-","-","-","|">>
SeHeader == <<"|"," ","A","P","I"," ","N","a","m","e"," ","|"," ","F","D","F"," ","M","a","n","u","f","a","c","t","u","r","e","r"," ","|"," ","C","o","u","n","t","r","y"," ","|"," ","P","r","o","d","u","c","t"," ","F","o","r","m"," ","|"," ","S","o","u","r","c","e"," ","U","R","L"," ","|"," ","E","v","i","d","e","n","c","e"," ","|">>
SeRule == <<"|","-","-","-","|","-","-","-","|","-","-","-","|","-","-","-","|","-","-","-","|","-","-","-","|">>

Lines3(a, b, c) == JoinLines(a, JoinLines(b, c))
Lines4(a, b, c, d) == JoinLines(a, Lines3(b, c, d))
Lines5(a, b, c, d, e) == JoinLines(a, Lines4(b, c, d, e))

\* answers of the Groq agent of the route finder
RfGroqDocs ==
    { <<>>,
      Lines5(RfHeader, RfRule,
             <<"|"," ","B","o","l","t"," ","|"," ","a","s","a"," ","c","r","e","a","m"," ","|"," ","1"," ","g"," ","|"," ","1","5","0"," ","|"," ","h","t","t","p",":","/","/","b",".","i","n"," ","|"," ","E","M","A"," ","|"," ","f","d","f"," ","|">>,
             <<"|"," ","A","c","m","e"," ","|"," ","A","S","A"," ","t","a","b","l","e","t"," ","|"," ","5"," ","m","g"," ","|"," ","9","5"," ","|"," ","h","t","t","p","s",":","/","/","a",".","i","n"," ","|"," ","F","D","A"," ","|"," ","p","l","a","n","t"," ","|">>,
             <<"|"," ","C","o","r","e"," ","|"," ","a","s","a"," ","s","y","r","u","p"," ","|"," ","1"," ","g"," ","|"," ","9","5"," ","|"," ","h","t","t","p","s",":","/","/","c",".","i","n"," ","|"," ","F","D","A"," ","|"," ","b","u","l","k"," ","d","r","u","g"," ","u","n","i","t"," ","|">>),
      Lines4(<<"|"," ","C","o","m","p","a","n","y"," ","|"," ","F","o","r","m"," ","|"," ","S","t","r","e","n","g","t","h"," ","|">>, <<"|","-","-","-","|","-","-","-","|","-","-","-","|">>,
             <<"|"," ","D","e","x"," ","|"," ","a","s","a"," ","|"," ","1"," ","g"," ","|">>, <<"|"," ","E","o","n"," ","|"," ","a","s","a"," ","|">>) }

\* answers of the OpenAI agent of the route finder
RfOpenaiDocs ==
    { <<>>,
      Lines4(RfHeader, RfRule,
             <<"|"," ","A","c","m","e"," ","|"," ","a","s","a"," ","t","a","b","l","e","t"," ","|"," ","5"," ","m","g"," ","|"," ","9","0","%"," ","|"," ","h","t","t","p","s",":","/","/","a",".","i","n"," ","|"," ","F","D","A"," ","|"," ","m","a","k","e","r"," ","|">>,
             <<"|"," ","Z","e","d"," ","|"," ","a","s","a"," ","g","e","l"," ","|"," ","1"," ","g"," ","|"," ","4","0"," ","|"," ","h","t","t","p","s",":","/","/","z",".","i","n"," ","|"," ","F","D","A"," ","|"," ","m","a","k","e","r"," ","|">>) }

\* answers of the Groq analysis of the synthesis_engine copy
SeDocs ==
    { <<>>,
      Lines5(SeHeader, SeRule,
             <<"|"," ","a","s","a"," ","|"," ","A","c","m","e"," ","|"," ","I","N"," ","|"," ","a","s","a"," ","t","a","b","l","e","t"," ","|"," ","h","t","t","p","s",":","/","/","a",".","i","n"," ","|"," ","m","a","k","e","s"," ","a","s","a"," ","|">>,
             <<"|"," ","a","s","a"," ","|"," ","U","n","k","n","o","w","n"," ","|"," ","I","N"," ","|"," ","a","s","a"," ","g","e","l"," ","|"," ","h","t","t","p","s",":","/","/","u",".","i","n"," ","|"," ","a","s","a"," ","g","e","l"," ","|">>,
             <<"|"," ","a","s","a"," ","|"," ","N","o","x"," ","|"," ","I","N"," ","|"," ","t","a","b","l","e","t"," ","|"," ","h","t","t","p","s",":","/","/","n",".","i","n"," ","|"," ","n","o","n","e"," ","|">>),
      Lines4(SeHeader, SeRule,
             <<"|"," ","a","s","a"," ","|"," ","B","o","l","t"," ","|"," ","I","N"," ","|"," ","A","S","A"," ","c","r","e","a","m"," ","|"," ","h","t","t","p","s",":","/","/","b",".","i","n"," ","|"," ","f","d","f"," ","|">>,
             <<"|"," ","a","s","a"," ","|"," ","a","c","m","e"," ","|"," ","I","N"," ","|"," ","a","s","a"," ","t","a","b","l","e","t"," ","|"," ","h","t","t","p","s",":","/","/","a",".","i","n"," ","|"," ","a","s","a"," ","|">>) }

GroqDocs(copy) == IF copy = "rf" THEN RfGroqDocs ELSE SeDocs

BuyerApi == <<"a","s","a">>
BuyerCountry == <<"I","N">>

\* stores left by earlier requests
StoredBuyers ==
    { <<>>,
      << BuyerRow(BuyerApi, BuyerCountry, <<"A","c","m","e">>, <<"a","s","a"," ","t","a","b","l","e","t">>, <<"5"," ","m","g">>, <<"F","D","A">>, 90,
                  <<"h","t","t","p","s",":","/","/","a",".","i","n">>, <<"m","a","k","e","r">>) >> }

NoReq ==
    [pc |-> "idle", api |-> <<>>, country |-> <<>>, existing |-> <<>>, df |-> EmptyFrame,
     groq |-> EmptyFrame, final |-> EmptyFrame, arg |-> EmptyFrame, k |-> 0, found |-> FALSE,
     writes |-> <<>>, newly_inserted |-> <<>>, inserted_df |-> <<>>, committed |-> <<>>,
     failed |-> FALSE, discovered |-> <<>>, newly_found |-> <<>>, log |-> <<>>]

nonBuyerVars == <<table, clock, pc, call, last, apc, run, stop_event, doc, parsed, patent, vcall, appVars>>

\* the companies of a frame, as the result lists name them
FrameCompanies(df) ==
    [i \in 1..Len(df.rows) |-> Get(df.headers, df.rows[i], ColCompany, <<>>)]

\* step 1: fetch_existing_data returns the stored rows of (api, country)
Fetch(p, api, country) ==
    /\ req[p].pc = "idle"
    /\ req' = [req EXCEPT ![p] = [@ EXCEPT !.pc = "groq", !.api = api, !.country = country,
                  !.existing = CompaniesOf(fetch_existing_data(impl, viruj, api, country)),
                  !.log = <<"fetch">>]]
    /\ UNCHANGED <<viruj, wlock, impl, budget, nonBuyerVars>>

\* step 1 when get_db_engine returns None: an empty frame
FetchNoEngine(p, api, country) ==
    /\ req[p].pc = "idle"
    /\ budget > 0
    /\ budget' = budget - 1
    /\ req' = [req EXCEPT ![p] = [@ EXCEPT !.pc = "groq", !.api = api, !.country = country,
                                            !.existing = <<>>, !.log = <<"fetch">>]]
    /\ UNCHANGED <<viruj, wlock, impl, nonBuyerVars>>

\* step 1 when the SELECT fails: nothing catches it in find_api_buyers
FetchFails(p, api, country) ==
    /\ req[p].pc = "idle"
    /\ budget > 0
    /\ budget' = budget - 1
    /\ req' = [req EXCEPT ![p] = [@ EXCEPT !.pc = "raised", !.api = api, !.country = country,
                                            !.log = <<"fetch">>]]
    /\ UNCHANGED <<viruj, wlock, impl, nonBuyerVars>>

\* the first agent answers and its markdown is parsed; the synthesis_engine
\* copy renames the columns and drops the stored companies right away (the
\* frames of its fallback extract_companies_from_results take the same steps
\* and are not drawn separately)
ParseGroq(p, response) ==
    /\ req[p].pc = "groq"
    /\ IF impl = "rf"
       THEN IF Strip(response) = <<>>
            THEN req' = [req EXCEPT ![p] = [@ EXCEPT !.pc = "openai"]]
            ELSE LET df == enhanced_parse_markdown_table(response)
                 IN req' = [req EXCEPT ![p] = [@ EXCEPT
                               !.pc = IF IsEmptyFrame(df) THEN "openai" ELSE "groq_validate",
                               !.df = df, !.log = Append(@, "parse")]]
       ELSE IF response = <<>>
            THEN req' = [req EXCEPT ![p] = [@ EXCEPT !.pc = "final", !.df = EmptyFrame]]
            ELSE LET df == parse_groq_table(response, req[p].api)
                 IN req' = [req EXCEPT ![p] = [@ EXCEPT
                               !.pc = "final",
                               !.df = FilterExisting(NormalizeColumns(df), req[p].existing),
                               !.log = Append(@, "parse")]]
    /\ UNCHANGED <<viruj, wlock, impl, budget, nonBuyerVars>>

\* run_agent_groq validates what it parsed
ValidateGroq(p) ==
    /\ req[p].pc = "groq_validate"
    /\ req' = [req EXCEPT ![p] = [@ EXCEPT
                  !.pc = "openai",
                  !.groq = validate_and_filter_results(impl, req[p].df, req[p].api),
                  !.df = EmptyFrame,
                  !.log = Append(@, "validate")]]
    /\ UNCHANGED <<viruj, wlock, impl, budget, nonBuyerVars>>

\* run_agent_openai: the second agent answers and its markdown is parsed
ParseOpenai(p, response) ==
    /\ req[p].pc = "openai"
    /\ IF Strip(response) = <<>>
       THEN req' = [req EXCEPT ![p] = [@ EXCEPT !.pc = "final", !.df = req[p].groq]]
       ELSE LET df == enhanced_parse_markdown_table(response)
            IN req' = [req EXCEPT ![p] = [@ EXCEPT
                          !.pc = IF IsEmptyFrame(df) THEN "final" ELSE "openai_validate",
                          !.df = IF IsEmptyFrame(df) THEN req[p].groq ELSE df,
                          !.log = Append(@, "parse")]]
    /\ UNCHANGED <<viruj, wlock, impl, budget, nonBuyerVars>>

\* run_agent_openai validates what it parsed; the results are concatenated
ValidateOpenai(p) ==
    /\ req[p].pc = "openai_validate"
    /\ req' = [req EXCEPT ![p] = [@ EXCEPT
                  !.pc = "final",
                  !.df = Concat(req[p].groq,
                                validate_and_filter_results(impl, req[p].df, req[p].api)),
                  !.log = Append(@, "validate")]]
    /\ UNCHANGED <<viruj, wlock, impl, budget, nonBuyerVars>>

\* the frame find_api_buyers hands to its final validation
ToValidate(p) == IF impl = "rf" THEN DropDuplicates(req[p].df) ELSE req[p].df

\* the final validation of find_api_buyers; without a validated row the
\* request returns no newly found company
FinalValidate(p) ==
    /\ req[p].pc = "final"
    /\ IF IsEmptyFrame(req[p].df)
       THEN req' = [req EXCEPT ![p] = [@ EXCEPT !.pc = "done"]]
       ELSE LET final_validated == validate_and_filter_results(impl, ToValidate(p), req[p].api)
            IN req' = [req EXCEPT ![p] = [@ EXCEPT
                          !.pc = IF IsEmptyFrame(final_validated) THEN "done" ELSE "persist",
                          !.final = final_validated,
                          !.discovered = FrameCompanies(final_validated),
                          !.log = Append(@, "validate")]]
    /\ UNCHANGED <<viruj, wlock, impl, budget, nonBuyerVars>>
----------------------------------------------------------------------------
(* Buyer finder: insert_into_viruj, statement by statement                 *)

\* the statement parameters of row k of the frame being inserted
RowData(p, k) ==
    InsertData(impl, req[p].arg.headers, req[p].arg.rows[k], req[p].api, req[p].country)

\* the first statement executed for a row
FirstStatement == IF impl = "rf" THEN "select" ELSE "insert"

\* after row k: the next row, or the end of the with block
NextRow(r) == IF r.k < Len(r.arg.rows) THEN [r EXCEPT !.k = @ + 1, !.pc = FirstStatement]
              ELSE [r EXCEPT !.pc = "commit"]

\* the except branch of insert_into_viruj: the transaction is rolled back and
\* an empty frame returned
Aborted(r) ==
    [r EXCEPT !.pc = "return", !.writes = <<>>, !.inserted_df = <<>>, !.failed = TRUE]

\* insert_into_viruj is entered with the validated frame and opens its
\* transaction
BeginInsert(p) ==
    /\ req[p].pc = "persist"
    /\ req' = [req EXCEPT ![p] = [@ EXCEPT !.pc = FirstStatement, !.arg = req[p].final,
                                            !.k = 1, !.log = Append(@, "persist")]]
    /\ UNCHANGED <<viruj, wlock, impl, budget, nonBuyerVars>>

\* insert_into_viruj when get_db_engine returns None
InsertNoEngine(p) ==
    /\ req[p].pc = "persist"
    /\ budget > 0
    /\ budget' = budget - 1
    /\ req' = [req EXCEPT ![p] = [Aborted(@) EXCEPT !.arg = req[p].final,
                                                     !.log = Append(@, "persist")]]
    /\ UNCHANGED <<viruj, wlock, impl, nonBuyerVars>>

\* route finder: SELECT company FROM viruj WHERE api, country, company match;
\* it sees the committed rows and the rows of its own transaction
SelectRow(p) ==
    /\ req[p].pc = "select"
    /\ req' = [req EXCEPT ![p] = [@ EXCEPT
                  !.pc = "insert",
                  !.found = BuyerKey(RowData(p, req[p].k))
                               \in BuyerKeys(viruj \o req[p].writes)]]
    /\ UNCHANGED <<viruj, wlock, impl, budget, nonBuyerVars>>

\* request p waits for the transaction of the other request, which holds an
\* uncommitted row of the key p inserts
WaitsForOther(p) ==
    /\ req[p].pc = "insert"
    /\ ~req[p].found
    /\ BuyerKey(RowData(p, req[p].k)) \in BuyerKeys(req[Other(p)].writes)

\* route finder: the plain INSERT of row k under UNIQUE(api, country, company)
InsertRowRf(p) ==
    /\ impl = "rf"
    /\ req[p].pc = "insert"
    /\ LET data == RowData(p, req[p].k)
       IN IF req[p].found
          THEN req' = [req EXCEPT ![p] = NextRow(@)]
          ELSE IF BuyerKey(data) \in BuyerKeys(viruj \o req[p].writes)
               THEN req' = [req EXCEPT ![p] = Aborted(@)]
               ELSE IF WaitsForOther(p)
                    THEN /\ WaitsForOther(Other(p))
                         /\ req' = [req EXCEPT ![p] = Aborted(@)]
                    ELSE req' = [req EXCEPT ![p] =
                                    NextRow([@ EXCEPT
                                        !.writes = Append(@, data),
                                        !.newly_inserted = Append(@, data)])]
    /\ UNCHANGED <<viruj, wlock, impl, budget, nonBuyerVars>>

\* synthesis_engine: INSERT OR IGNORE of row k; the writer holds the
\* database's write lock until its transaction ends
InsertRowSe(p) ==
    /\ impl = "se"
    /\ req[p].pc = "insert"
    /\ LET data == RowData(p, req[p].k)
       IN IF SkippedCompany(impl, data)
          THEN /\ req' = [req EXCEPT ![p] = NextRow(@)]
               /\ UNCHANGED wlock
          ELSE /\ wlock \in {0, p}
               /\ wlock' = p
               /\ IF BuyerKey(data) \in BuyerKeys(viruj \o req[p].writes)
                  THEN req' = [req EXCEPT ![p] = NextRow(@)]
                  ELSE req' = [req EXCEPT ![p] =
                                  NextRow([@ EXCEPT
                                      !.writes = Append(@, data),
                                      !.newly_inserted = Append(@, data)])]
    /\ UNCHANGED <<viruj, impl, budget, nonBuyerVars>>

\* a statement of the transaction fails (connection lost, database locked)
StatementFails(p) ==
    /\ req[p].pc \in {"select", "insert", "commit"}
    /\ budget > 0
    /\ budget' = budget - 1
    /\ req' = [req EXCEPT ![p] = Aborted(@)]
    /\ wlock' = IF wlock = p THEN 0 ELSE wlock
    /\ UNCHANGED <<viruj, impl, nonBuyerVars>>

\* the with block ends: the transaction commits
Commit(p) ==
    /\ req[p].pc = "commit"
    /\ viruj' = viruj \o req[p].writes
    /\ wlock' = IF wlock = p THEN 0 ELSE wlock
    /\ req' = [req EXCEPT ![p] = [@ EXCEPT !.pc = "return", !.committed = req[p].writes,
                                            !.writes = <<>>,
                                            !.inserted_df = req[p].newly_inserted]]
    /\ UNCHANGED <<impl, budget, nonBuyerVars>>

\* find_api_buyers builds newly_found_companies and returns
Return(p) ==
    /\ req[p].pc = "return"
    /\ req' = [req EXCEPT ![p] = [@ EXCEPT
                  !.pc = "done",
                  !.newly_found =
                      IF impl = "rf"
                      THEN IF req[p].inserted_df # <<>> THEN CompaniesOf(req[p].inserted_df)
                           ELSE req[p].discovered
                      ELSE CompaniesOf(req[p].inserted_df)]]
    /\ UNCHANGED <<viruj, wlock, impl, budget, nonBuyerVars>>

InitBuyer ==
    /\ viruj \in StoredBuyers
    /\ wlock = 0
    /\ impl \in {"rf", "se"}
    /\ req = [p \in Requests |-> NoReq]
    /\ budget = BuyerFaults
    /\ table = EmptyTable /\ clock = 0 /\ pc = "idle" /\ call = NoCall /\ last = NoResult
    /\ apc = "off" /\ run = <<>> /\ stop_event = FALSE
    /\ doc = <<>> /\ parsed = NotParsed /\ AppOff
    /\ patent = NoPatent /\ vcall = NoVcall

NextBuyer ==
    \E p \in Requests :
        \/ Fetch(p, BuyerApi, BuyerCountry)
        \/ FetchNoEngine(p, BuyerApi, BuyerCountry)
        \/ FetchFails(p, BuyerApi, BuyerCountry)
        \/ \E response \in GroqDocs(impl) : ParseGroq(p, response)
        \/ ValidateGroq(p)
        \/ \E response \in RfOpenaiDocs : ParseOpenai(p, response)
        \/ ValidateOpenai(p)
        \/ FinalValidate(p)
        \/ BeginInsert(p)
        \/ InsertNoEngine(p)
        \/ SelectRow(p)
        \/ InsertRowRf(p)
        \/ InsertRowSe(p)
        \/ StatementFails(p)
        \/ Commit(p)
        \/ Return(p)

SpecBuyer == InitBuyer /\ [][NextBuyer]_vars
----------------------------------------------------------------------------
(* Properties of the buyer finder                                          *)

AllDone == \A p \in Requests : req[p].pc = "done"

\* the rows insert_into_viruj of request p was asked to store
Batch(p) ==
    LET all == [k \in 1..Len(req[p].arg.rows) |-> RowData(p, k)]
    IN SelectSeq(all, LAMBDA data : ~SkippedCompany(impl, data))

\* both requests called insert_into_viruj with a row of the same key
SharedKey == BuyerKeys(Batch(1)) \cap BuyerKeys(Batch(2)) # {}

\* C4: when two requests have inserted batches that share a key, and no
\* storage fault occurred, the key is stored exactly once, neither
\* insert_into_viruj call failed, and every row of both batches is stored.
C4_ConcurrentDuplicateIgnored ==
    (AllDone /\ SharedKey /\ budget = BuyerFaults)
        => /\ \A i, j \in 1..Len(viruj) : i # j => BuyerKey(viruj[i]) # BuyerKey(viruj[j])
           /\ \A p \in Requests :
                 /\ ~req[p].failed
                 /\ BuyerKeys(Batch(p)) \subseteq BuyerKeys(viruj)

\* two requests of the synthesis_engine copy inserted batches sharing a new
\* key and both completed
C4_Witness ==
    /\ AllDone /\ SharedKey /\ budget = BuyerFaults
    /\ impl = "se"
    /\ \E key \in BuyerKeys(Batch(1)) \cap BuyerKeys(Batch(2)) :
          \E p \in Requests : key \in BuyerKeys(req[p].committed)
    /\ \A p \in Requests : ~req[p].failed /\ BuyerKeys(Batch(p)) \subseteq BuyerKeys(viruj)

\* the position of a phase in fetch -> parse -> validate -> persist
PhaseRank(phase) ==
    CASE phase = "fetch" -> 1
      [] phase = "parse" -> 2
      [] phase = "validate" -> 3
      [] OTHER -> 4

\* every row handed to insert_into_viruj passes the validator's checks, and
\* the request writes rows of that frame only
OnlyValidRowsReachInsert(p) ==
    /\ \A k \in 1..Len(req[p].arg.rows) :
          RowValid(impl, req[p].arg.headers, req[p].arg.rows[k], req[p].api)
    /\ BuyerKeys(req[p].writes \o req[p].committed) \subseteq BuyerKeys(Batch(p))

\* the phases of a request so far are: fetch first and once; every validation
\* after a parse; persist last, once, directly after a validation
PhasesInOrder(log) ==
    /\ log # <<>> => log[1] = "fetch"
    /\ \A i \in 2..Len(log) : log[i] # "fetch"
    /\ \A i \in 1..Len(log) :
          /\ log[i] = "validate" => \E j \in 1..(i - 1) : log[j] = "parse"
          /\ log[i] = "persist" => i = Len(log) /\ i > 1 /\ log[i - 1] = "validate"

C9_NewlyFoundAreInserted ==
    \A p \in Requests :
        (req[p].pc = "done" /\ ~req[p].failed)
            => req[p].newly_found = CompaniesOf(req[p].committed)

\* a request finished whose discovered companies were partly stored already
\* and whose result names the inserted one only
C9_Witness ==
    \E p \in Requests :
        /\ req[p].pc = "done" /\ ~req[p].failed
        /\ req[p].committed # <<>>
        /\ Len(req[p].committed) < Len(req[p].arg.rows)
        /\ req[p].newly_found = CompaniesOf(req[p].committed)
----------------------------------------------------------------------------
(* Cooperative cancellation of run_full_analysis / predict_synthesis_route *)

\* search queries of one analysis, unique links they return
MaxQueries == 2
MaxLinks == 2

NoRun ==
    [kind |-> "none", queries |-> 0, links |-> 0, pending |-> 0, valid |-> 0,
     set_at |-> "none", result |-> "none", success |-> "none", error |-> FALSE,
     suggestions |-> FALSE]

nonRunVars ==
    <<table, clock, pc, call, last, budget, viruj, wlock, req, impl, doc, parsed, patent, vcall, appVars>>

\* the keys of the dict returned for an outcome: the value of 'success'
\* ("absent" when the dict has no such key), and whether it has the keys
\* 'error' and 'suggestions'
ResultSuccess(outcome) ==
    IF outcome = "success" THEN "True"
    ELSE IF outcome = "no_patents" THEN "absent"
    ELSE "False"

\* the call returns outcome
Finish(outcome) ==
    /\ apc' = "done"
    /\ run' = [run EXCEPT !.result = outcome,
                          !.success = ResultSuccess(outcome),
                          !.error = (outcome # "success"),
                          !.suggestions = (outcome = "no_patents")]

\* the worker thread calls run_full_analysis or predict_synthesis_route with
\* a fresh threading.Event
StartRun(kind, queries) ==
    /\ apc \in {"off", "done"}
    /\ apc' = "entry"
    /\ run' = [NoRun EXCEPT !.kind = kind, !.queries = IF kind = "analysis" THEN queries ELSE 0]
    /\ stop_event' = FALSE
    /\ UNCHANGED nonRunVars

\* stop_analysis_endpoint: stop_events[session_id].set() while the run is in
\* flight
SetStop ==
    /\ apc \notin {"off", "done"}
    /\ ~stop_event
    /\ stop_event' = TRUE
    /\ run' = [run EXCEPT !.set_at = apc]
    /\ UNCHANGED <<apc, nonRunVars>>

\* the check at the entry of either call
CheckEntry ==
    /\ apc = "entry"
    /\ IF stop_event THEN Finish("stopped")
       ELSE /\ apc' = IF run.kind = "analysis" THEN "queries" ELSE "predict"
            /\ UNCHANGED run
    /\ UNCHANGED <<stop_event, nonRunVars>>

\* head of the loop over search_queries: the flag is checked per query
CheckQuery ==
    /\ apc = "queries"
    /\ IF run.queries = 0
       THEN /\ apc' = "links"
            /\ run' = [run EXCEPT !.pending = run.links]
       ELSE IF stop_event THEN Finish("stopped")
            ELSE /\ apc' = "search"
                 /\ UNCHANGED run
    /\ UNCHANGED <<stop_event, nonRunVars>>

\* google_cse_search and serpapi_search of one query return found new links
Search(found) ==
    /\ apc = "search"
    /\ run.links + found <= MaxLinks
    /\ apc' = "queries"
    /\ run' = [run EXCEPT !.queries = @ - 1, !.links = @ + found]
    /\ UNCHANGED <<stop_event, nonRunVars>>

\* head of the loop over unique_links: the flag is checked per link
CheckLink ==
    /\ apc = "links"
    /\ IF run.pending = 0
       THEN /\ apc' = "final"
            /\ UNCHANGED run
       ELSE IF stop_event THEN Finish("stopped")
            ELSE /\ apc' = "extract"
                 /\ UNCHANGED run
    /\ UNCHANGED <<stop_event, nonRunVars>>

\* one link is fetched and judged relevant or not
Extract(relevant) ==
    /\ apc = "extract"
    /\ apc' = "links"
    /\ run' = [run EXCEPT !.pending = @ - 1, !.valid = IF relevant THEN @ + 1 ELSE @]
    /\ UNCHANGED <<stop_event, nonRunVars>>

\* the last check of run_full_analysis, after the loop over the links; without
\* a relevant patent the call returns the no-patents error
CheckFinal ==
    /\ apc = "final"
    /\ IF stop_event THEN Finish("stopped")
       ELSE IF run.valid = 0 THEN Finish("no_patents")
            ELSE /\ apc' = "agent"
                 /\ UNCHANGED run
    /\ UNCHANGED <<stop_event, nonRunVars>>

\* viability assessment and synthesis_agent.run return: the normal result
AgentReturns ==
    /\ apc = "agent"
    /\ Finish("success")
    /\ UNCHANGED <<stop_event, nonRunVars>>

\* prediction_agent.run returns
PredictionReturns ==
    /\ apc = "predict"
    /\ apc' = "pfinal"
    /\ UNCHANGED <<run, stop_event, nonRunVars>>

\* the last check of predict_synthesis_route, after the agent returned
CheckPrediction ==
    /\ apc = "pfinal"
    /\ Finish(IF stop_event THEN "stopped" ELSE "success")
    /\ UNCHANGED <<stop_event, nonRunVars>>

\* an external call raises: the except branch returns the failure outcome
CallRaises ==
    /\ apc \in {"search", "extract", "agent", "predict"}
    /\ Finish("failed")
    /\ UNCHANGED <<stop_event, nonRunVars>>

InitRun ==
    /\ apc = "off" /\ run = NoRun /\ stop_event = FALSE
    /\ table = EmptyTable /\ clock = 0 /\ pc = "idle" /\ call = NoCall /\ last = NoResult
    /\ budget = 0
    /\ viruj = <<>> /\ wlock = 0 /\ req = <<>> /\ impl = "se"
    /\ doc = <<>> /\ parsed = NotParsed /\ AppOff
    /\ patent = NoPatent /\ vcall = NoVcall

NextRun ==
    \/ \E kind \in {"analysis", "prediction"}, queries \in 1..MaxQueries : StartRun(kind, queries)
    \/ SetStop
    \/ CheckEntry
    \/ CheckQuery
    \/ \E found \in 0..MaxLinks : Search(found)
    \/ CheckLink
    \/ \E relevant \in BOOLEAN : Extract(relevant)
    \/ CheckFinal
    \/ AgentReturns
    \/ PredictionReturns
    \/ CheckPrediction
    \/ CallRaises

SpecRun == InitRun /\ [][NextRun]_vars

\* C7: a call during which the stop flag was set, at whatever point before
\* it returned, does not return a normal result (the analysis, the no-patents
\* answer or the prediction): it returns the stopped-by-user outcome, or the
\* failure outcome when an external call raised.
C7_StopAlwaysHonoured ==
    (apc = "done" /\ run.set_at # "none") => run.result \in {"stopped", "failed"}

\* the flag was set while the links were processed and the call returned the
\* stopped outcome
C7_Witness ==
    /\ apc = "done"
    /\ run.set_at = "extract"
    /\ run.result = "stopped"
----------------------------------------------------------------------------
(* enhanced_parse_markdown_table on agent answers                          *)

\* lines that follow the first two lines of an answer
MaxLines == 3

\* kinds of line an answer is made of
AnswerLines ==
    { <<"|"," ","C","o","m","p","a","n","y"," ","|"," ","F","o","r","m"," ","|">>, <<"|","-","-","-","|","-","-","-","|">>, <<" ","|"," ","A","c","m","e"," ","|"," ","g","e","l"," ","|"," ">>, <<"|"," ","B","o","l","t"," ","|">>,
      <<"|"," ","C","o","r","e"," ","|"," ","t","a","b"," ","|"," ","5"," ","m","g"," ","|">>, <<"S","o","u","r","c","e","s",":">>, <<>> }

\* a line that opens or closes a code fence
FenceLine == <<Backtick,Backtick,Backtick,"|"," ","m","d">>

RECURSIVE JoinAll(_)
JoinAll(lines) ==
    IF lines = <<>> THEN <<>>
    ELSE IF Len(lines) = 1 THEN lines[1]
    ELSE lines[1] \o <<"\n">> \o JoinAll(Tail(lines))

\* sequences of at most n answer lines
RECURSIVE LineSeqs(_)
LineSeqs(n) ==
    IF n = 0 THEN {<<>>}
    ELSE LineSeqs(n - 1) \cup {Append(s, l) : s \in {t \in LineSeqs(n - 1) : Len(t) = n - 1},
                                             l \in AnswerLines}

\* the answers parsed: any short sequence of lines, alone or after a header
\* line and any second line
Answers ==
    {JoinAll(s) : s \in LineSeqs(MaxLines)}
        \cup {JoinAll(<<h, x>> \o s) : h \in {<<"|"," ","C","o","m","p","a","n","y"," ","|"," ","F","o","r","m"," ","|">>, FenceLine},
                                       x \in AnswerLines, s \in LineSeqs(MaxLines)}

\* answers with prose, and a blank line, before a table and further lines
\* after its separator
FramedAnswers ==
    {JoinAll(pre \o << <<"|"," ","C","o","m","p","a","n","y"," ","|"," ","F","o","r","m"," ","|">>, <<"|","-","-","-","|","-","-","-","|">> >> \o s) :
        pre \in { << <<"S","o","u","r","c","e","s",":">> >>, << <<"H","e","r","e"," ","i","t"," ","i","s",":">>, <<>> >> }, s \in LineSeqs(MaxLines)}

\* answers whose table is written without outer pipes
BareAnswers ==
    {JoinAll(<< <<"C","o","m","p","a","n","y"," ","|"," ","F","o","r","m"," ","|"," ","S","t","r","e","n","g","t","h">>, <<"-","-","-","|","-","-","-","|","-","-","-">> >> \o s) :
        s \in { << <<"A","c","m","e"," ","|"," ","g","e","l"," ","|"," ","5"," ","m","g">> >>,
                << <<"A","c","m","e"," ","|"," ","g","e","l"," ","|"," ","5"," ","m","g">>, <<"B","o","l","t"," ","|"," ","t","a","b"," ","|"," ","1"," ","g">> >>,
                << <<"|"," ","A","c","m","e"," ","|"," ","g","e","l"," ","|"," ","5"," ","m","g"," ","|">> >>,
                << <<"A","c","m","e"," ","|"," ","g","e","l">> >> }}

nonParseVars ==
    <<table, clock, pc, call, last, budget, viruj, wlock, req, impl, apc, run, stop_event, patent, vcall, appVars>>

\* enhanced_parse_markdown_table is called on the agent's answer and returns
ParseAnswer ==
    /\ ~parsed.returned
    /\ parsed' = [returned |-> TRUE, frame |-> enhanced_parse_markdown_table(doc)]
    /\ UNCHANGED <<doc, nonParseVars>>

InitParse ==
    /\ doc \in Answers \cup FramedAnswers \cup BareAnswers
    /\ parsed = NotParsed /\ AppOff
    /\ patent = NoPatent /\ vcall = NoVcall
    /\ table = EmptyTable /\ clock = 0 /\ pc = "idle" /\ call = NoCall /\ last = NoResult
    /\ budget = 0
    /\ viruj = <<>> /\ wlock = 0 /\ req = <<>> /\ impl = "se"
    /\ apc = "off" /\ run = NoRun /\ stop_event = FALSE

NextParse == ParseAnswer

SpecParse == InitParse /\ [][NextParse]_vars

\* the table lines the parser collected from the answer
Collected == CollectTableLines(Split(Strip(doc), "\n"), 1, FALSE)

\* the collected lines after the first two whose cell count is the header's
WellFormed ==
    {i \in 3..Len(Collected) : Len(Cells(Collected[i])) = Len(Cells(Collected[1]))}

\* C10: the rows returned are, in source order, the cells of the collected
\* lines after the first two whose cell count equals the header's column
\* count; every returned row has as many entries as the header, and a line
\* with a missing or extra cell is dropped without affecting the others.
C10_RowsAreWellFormedLinesInOrder ==
    parsed.returned =>
        /\ Len(parsed.frame.rows) = Cardinality(WellFormed)
        /\ \A n \in 1..Len(parsed.frame.rows) :
              LET i == CHOOSE j \in WellFormed : Cardinality({m \in WellFormed : m <= j}) = n
              IN parsed.frame.rows[n] = Cells(Collected[i])
        /\ parsed.frame.rows # <<>> =>
              /\ parsed.frame.headers = Cells(Collected[1])
              /\ \A n \in 1..Len(parsed.frame.rows) :
                    Len(parsed.frame.rows[n]) = Len(parsed.frame.headers)

\* a table with two columns whose second collected line is not a separator
\* and whose data lines are a good row, a ragged row and a good row
C10_Witness ==
    /\ parsed.returned
    /\ Len(Collected) = 5
    /\ Collected[2] = <<"|"," ","B","o","l","t"," ","|">>
    /\ Len(Cells(Collected[4])) # 2
    /\ Len(parsed.frame.headers) = 2
    /\ Len(parsed.frame.rows) = 2
    /\ parsed.frame.rows[1] = Cells(Collected[3])
    /\ parsed.frame.rows[2] = Cells(Collected[5])
----------------------------------------------------------------------------
(* Properties of the table run collected by enhanced_parse_markdown_table  *)

\* the lines of the answer
DocLines == Split(Strip(doc), "\n")

\* a table line: it holds a pipe and does not open a code fence
IsTableLine(line) == HasPipe(line) /\ ~StartsWith(Strip(line), <<Backtick,Backtick,Backtick>>)

\* index of the first table line, 0 when the answer has none
TableStart ==
    IF \E i \in 1..Len(DocLines) : IsTableLine(DocLines[i])
    THEN CHOOSE i \in 1..Len(DocLines) :
             IsTableLine(DocLines[i]) /\ \A j \in 1..(i - 1) : ~IsTableLine(DocLines[j])
    ELSE 0

\* a line that is neither blank nor holds a pipe
EndsRun(line) == ~HasPipe(line) /\ Strip(line) # <<>>

\* index of the last line before the first line after the table's start that
\* is neither blank nor a pipe line
TableEnd ==
    IF \E j \in (TableStart + 1)..Len(DocLines) : EndsRun(DocLines[j])
    THEN (CHOOSE j \in (TableStart + 1)..Len(DocLines) :
              EndsRun(DocLines[j]) /\ \A k \in (TableStart + 1)..(j - 1) : ~EndsRun(DocLines[k])) - 1
    ELSE Len(DocLines)

\* the table alone: the answer without the lines before and after the run
TableAlone == IF TableStart = 0 THEN <<>> ELSE JoinAll(SubSeq(DocLines, TableStart, TableEnd))

\* the table lines of the run, trimmed, in order
RunLines ==
    IF TableStart = 0 THEN <<>>
    ELSE LET run_lines == SelectSeq(SubSeq(DocLines, TableStart, TableEnd), IsTableLine)
         IN [i \in 1..Len(run_lines) |-> Strip(run_lines[i])]

\* C11: the lines collected are exactly the table lines between the first
\* table line and the first non-blank line without a pipe after it (lines
\* before are ignored, blank lines inside are tolerated, nothing after is
\* collected); the result equals that of the table alone, and it is empty
\* when fewer than two lines are collected.
C11_OnlyTheTableRunIsParsed ==
    parsed.returned =>
        /\ Collected = RunLines
        /\ parsed.frame = enhanced_parse_markdown_table(TableAlone)
        /\ Len(RunLines) < 2 => parsed.frame = EmptyFrame

\* an answer with prose before the table, a data row, prose after it and a
\* pipe line after that prose, which is not collected
C11_Witness ==
    /\ parsed.returned
    /\ TableStart > 1
    /\ TableEnd + 1 < Len(DocLines)
    /\ HasPipe(DocLines[Len(DocLines)])
    /\ Len(parsed.frame.rows) = 1
    /\ Len(RunLines) = 3

\* the tokens of a line split on the pipe, trimmed
TrimmedTokens(line) ==
    LET tokens == Split(line, "|") IN [i \in 1..Len(tokens) |-> Strip(tokens[i])]

\* tokens without an empty first and an empty last token
DropOuterEmpty(tokens) ==
    LET lo == IF tokens # <<>> /\ tokens[1] = <<>> THEN 2 ELSE 1
        hi == IF Len(tokens) >= lo /\ tokens[Len(tokens)] = <<>>
              THEN Len(tokens) - 1 ELSE Len(tokens)
    IN SubSeq(tokens, lo, hi)

\* C12: the columns of the result are the trimmed tokens of the header line
\* less an empty leading and an empty trailing token only, and every row
\* returned is made that way from a collected line: a non-empty outer cell is
\* kept, also in a table written without outer pipes.
C12_OnlyEmptyOuterTokensDropped ==
    (parsed.returned /\ Len(Collected) >= 3)
        => /\ parsed.frame.rows # <<>> =>
                 parsed.frame.headers = DropOuterEmpty(TrimmedTokens(Collected[1]))
           /\ \A n \in 1..Len(parsed.frame.rows) :
                 \E i \in 3..Len(Collected) :
                     parsed.frame.rows[n] = DropOuterEmpty(TrimmedTokens(Collected[i]))
           /\ \A i \in 3..Len(Collected) :
                 Len(DropOuterEmpty(TrimmedTokens(Collected[i])))
                        = Len(DropOuterEmpty(TrimmedTokens(Collected[1])))
                     => \E n \in 1..Len(parsed.frame.rows) :
                            parsed.frame.rows[n] = DropOuterEmpty(TrimmedTokens(Collected[i]))

\* a table written with outer pipes: every cell of the header and of the row
\* is returned
C12_Witness ==
    /\ parsed.returned
    /\ Collected = << <<"|"," ","C","o","m","p","a","n","y"," ","|"," ","F","o","r","m"," ","|">>, <<"|","-","-","-","|","-","-","-","|">>, <<"|"," ","A","c","m","e"," ","|"," ","g","e","l"," ","|">> >>
    /\ parsed.frame = Frame(<< <<"C","o","m","p","a","n","y">>, <<"F","o","r","m">> >>, << << <<"A","c","m","e">>, <<"g","e","l">> >> >>)
----------------------------------------------------------------------------
(* SynthesisAnalyzer: API name variants and the patent classifier          *)

\* s.find(p) + 1: index of the first occurrence of p in s, 0 if none
FirstIndex(s, p) ==
    LET hits == {i \in 1..(Len(s) - Len(p) + 1) : SubSeq(s, i, i + Len(p) - 1) = p}
    IN IF hits = {} THEN 0 ELSE CHOOSE i \in hits : \A j \in hits : i <= j

\* str.count(p): the non-overlapping occurrences of a non-empty p in s
RECURSIVE Count(_, _)
Count(s, p) ==
    LET k == FirstIndex(s, p)
    IN IF k = 0 THEN 0 ELSE 1 + Count(SubSeq(s, k + Len(p), Len(s)), p)

\* str.replace(p, r) for a non-empty p
RECURSIVE Replace(_, _, _)
Replace(s, p, r) ==
    LET k == FirstIndex(s, p)
    IN IF k = 0 THEN s
       ELSE SubSeq(s, 1, k - 1) \o r \o Replace(SubSeq(s, k + Len(p), Len(s)), p, r)

\* str.removeprefix(p)
RemovePrefix(s, p) == IF StartsWith(s, p) THEN SubSeq(s, Len(p) + 1, Len(s)) ELSE s

\* re.sub(r'[^a-z0-9]', '', s)
KeepAlnum(s) ==
    SelectSeq(s, LAMBDA c : c \in Range(LowerAlpha) \cup Range(Digits))

\* s[-n:]
LastChars(s, n) == IF Len(s) <= n THEN s ELSE SubSeq(s, Len(s) - n + 1, Len(s))

salt_suffixes ==
    << <<" ","h","c","l">>, <<" ","h","y","d","r","o","c","h","l","o","r","i","d","e">>, <<" ","s","u","l","f","a","t","e">>, <<" ","p","h","o","s","p","h","a","t","e">>, <<" ","t","a","r","t","r","a","t","e">>,
       <<" ","m","a","l","e","a","t","e">>, <<" ","f","u","m","a","r","a","t","e">>, <<" ","c","i","t","r","a","t","e">>, <<" ","s","u","c","c","i","n","a","t","e">>, <<" ","a","c","e","t","a","t","e">> >>

\* normalize_api_name(api_name): <<base_name, normalized>>
normalize_api_name(api_name) ==
    LET normalized == Lower(api_name)
        hits == {i \in 1..Len(salt_suffixes) : EndsWith(normalized, salt_suffixes[i])}
    IN IF hits = {} THEN <<normalized, normalized>>
       ELSE LET suffix == salt_suffixes[CHOOSE i \in hits : \A j \in hits : i <= j]
            IN <<Strip(Replace(normalized, suffix, <<>>)), normalized>>

\* the prefixes of prefix_candidates with their hyphen removed
prefix_candidates ==
    { <<"i","s","o">>, <<"d","e","s">>, <<"l","e","v","o">>, <<"d">>, <<"l">>, <<"n","o","r">>, <<"d","e">>, <<"d","i">> }

\* _generate_api_variants(api_name)
generate_api_variants(api_name) ==
    LET base_name == normalize_api_name(api_name)[1]
        full_name == normalize_api_name(api_name)[2]
        cleaned == KeepAlnum(base_name)
        stripped == {RemovePrefix(cleaned, prefix) : prefix \in prefix_candidates} \ {cleaned}
        azole == IF EndsWith(cleaned, <<"a","z","o","l","e">>) /\ Len(cleaned) > 6
                 THEN {LastChars(cleaned, 8), Replace(cleaned, <<"a","z","o","l","e">>, <<"c","o","n","a","z","o","l","e">>)}
                 ELSE {}
        cores == IF Len(cleaned) > 6
                 THEN {SubSeq(cleaned, 1, Len(cleaned) - 2), LastChars(cleaned, 6)}
                 ELSE {}
    IN ({base_name, full_name, cleaned} \cup stripped \cup azole \cup cores) \ {<<>>}

synthesis_keywords ==
    << <<"s","y","n","t","h","e","s","i","s">>, <<"p","r","e","p","a","r","a","t","i","o","n">>, <<"s","y","n","t","h","e","t","i","c"," ","r","o","u","t","e">>, <<"c","h","e","m","i","c","a","l"," ","p","r","o","c","e","s","s">>,
       <<"m","a","n","u","f","a","c","t","u","r","i","n","g"," ","p","r","o","c","e","s","s">>, <<"r","e","a","c","t","i","o","n">>, <<"i","n","t","e","r","m","e","d","i","a","t","e">>, <<"c","o","u","p","l","i","n","g">>,
       <<"r","e","a","g","e","n","t">>, <<"p","r","o","c","e","d","u","r","e">>, <<"e","x","a","m","p","l","e">>, <<"s","t","e","p">>, <<"s","t","a","g","e">>, <<"m","e","t","h","o","d">> >>

formulation_keywords ==
    << <<"t","a","b","l","e","t">>, <<"c","a","p","s","u","l","e">>, <<"f","o","r","m","u","l","a","t","i","o","n">>, <<"p","h","a","r","m","a","c","e","u","t","i","c","a","l"," ","c","o","m","p","o","s","i","t","i","o","n">>,
       <<"s","o","l","i","d"," ","d","o","s","a","g","e">>, <<"e","x","c","i","p","i","e","n","t">>, <<"b","i","n","d","e","r">>, <<"d","i","s","i","n","t","e","g","r","a","n","t">>, <<"l","u","b","r","i","c","a","n","t">>,
       <<"c","o","a","t","i","n","g">>, <<"g","r","a","n","u","l","a","t","i","o","n">>, <<"c","o","m","p","r","e","s","s","i","o","n">>, <<"d","r","u","g"," ","d","e","l","i","v","e","r","y">>, <<"d","o","s","a","g","e"," ","f","o","r","m">> >>

\* sum(text_lower.count(keyword) for keyword in keywords)
RECURSIVE KeywordScore(_, _, _)
KeywordScore(text_lower, keywords, i) ==
    IF i > Len(keywords) THEN 0
    ELSE Count(text_lower, keywords[i]) + KeywordScore(text_lower, keywords, i + 1)

SYNTHESIS_KEYWORD_THRESHOLD == 3

\* SYNTHESIS_FORMULATION_RATIO = 1.2 as a fraction
RatioNum == 6
RatioDen == 5

\* a comparison without the ratio: synthesis hits at least the formulation hits
AtLeastFormulation(synthesis_score, formulation_score) ==
    synthesis_score >= formulation_score

\* synthesis_score >= formulation_score * SYNTHESIS_FORMULATION_RATIO; the
\* double 1.2 is below 6/5 by less than 1e-16, so for the scores of a text
\* the comparison with an integer agrees with the exact one
BeatsFormulation(synthesis_score, formulation_score) ==
    RatioDen * synthesis_score >= RatioNum * formulation_score

\* the fuzzy match: a variant of six or more characters whose head (less its
\* last two characters) or whose last six characters occur in the text
FuzzyPresent(text_lower, api_variants) ==
    \E variant \in api_variants :
        /\ Len(variant) >= 6
        /\ \E part \in {SubSeq(variant, 1, Len(variant) - 2), LastChars(variant, 6)} :
              part # <<>> /\ IsSubstr(part, text_lower)

\* _is_synthesis_patent_enhanced(text, api_name): <<is_synthesis, metadata>>
is_synthesis_patent_enhanced(text, api_name) ==
    LET text_lower == Lower(text) \o <<>>
        api_variants == generate_api_variants(api_name)
        synthesis_score == KeywordScore(text_lower, synthesis_keywords, 1)
        formulation_score == KeywordScore(text_lower, formulation_keywords, 1)
        api_present == \E variant \in api_variants : IsSubstr(variant, text_lower)
        fuzzy_api_present == ~api_present /\ FuzzyPresent(text_lower, api_variants)
        is_synthesis ==
            /\ synthesis_score >= SYNTHESIS_KEYWORD_THRESHOLD
            /\ (api_present \/ fuzzy_api_present)
            /\ (formulation_score = 0 \/ BeatsFormulation(synthesis_score, formulation_score))
    IN << is_synthesis,
          [synthesis_score |-> synthesis_score, formulation_score |-> formulation_score,
           api_present |-> api_present, fuzzy_api_present |-> fuzzy_api_present,
           api_variants |-> api_variants] >>
----------------------------------------------------------------------------
(* The analyzer's pure functions applied to bounded inputs                 *)

\* keyword hits of either kind in a text
MaxHits == 6

\* API names handed to the analyzer
ApiNames ==
    { <<"a","s","p","i","r","i","n">>, <<" ","A","s","p","i","r","i","n"," ">>, <<"M","e","t","f","o","r","m","i","n"," ","H","C","l">>, <<"m","e","t","f","o","r","m","i","n"," ","h","y","d","r","o","c","h","l","o","r","i","d","e">>,
      <<"I","s","a","v","u","c","o","n","a","z","o","l","e">>, <<"d","-","A","l","a","n","i","n","e"," ","s","u","l","f","a","t","e">>, <<" ">> }

SynthesisWords == << <<" ","S","y","n","t","h","e","s","i","s">>, <<" ","r","e","a","c","t","i","o","n">>, <<" ","s","t","e","p">> >>
FormulationWords == << <<" ","t","a","b","l","e","t">>, <<" ","C","a","p","s","u","l","e">>, <<" ","b","i","n","d","e","r">> >>

\* n words, taken in turn from words
RECURSIVE Words(_, _)
Words(words, n) ==
    IF n = 0 THEN <<>> ELSE Words(words, n - 1) \o words[((n - 1) % Len(words)) + 1]

\* what a text says about a compound
Mentions ==
    { <<>>, <<" ","o","f"," ","a","s","p","i","r","i","n">>, <<" ","o","f"," ","r","a","v","u","c","o","n","a","z","o","l","e">>, <<" ","o","f"," ","d","a","n","a","z","o","l">>, <<" ","o","f"," ","s","p","i","r","o","n","o","l","a","c","t","o","n","e">>,
      <<" ","o","f"," ","m","e","t","f","o","r","m","i","n">> }

\* patent texts: synthesis words, formulation words and a mention
PatentTexts ==
    {Words(SynthesisWords, a) \o Words(FormulationWords, b) \o mention :
        a \in 0..MaxHits, b \in 0..MaxHits, mention \in Mentions}

nonPatentVars ==
    <<table, clock, pc, call, last, budget, viruj, wlock, req, impl, apc, run, stop_event,
      doc, parsed, vcall, appVars>>

\* _is_source_relevant_enhanced classifies the text of a source
Classify ==
    /\ ~patent.classified
    /\ LET answer == is_synthesis_patent_enhanced(patent.text, patent.api_name)
       IN patent' = [patent EXCEPT !.classified = TRUE, !.is_synthesis = answer[1],
                                   !.metadata = answer[2]]
    /\ UNCHANGED nonPatentVars

\* the variants of the API name are generated
GenerateVariants ==
    /\ ~patent.generated
    /\ patent' = [patent EXCEPT !.generated = TRUE,
                                !.variants = generate_api_variants(patent.api_name)]
    /\ UNCHANGED nonPatentVars

InitPatent ==
    /\ \E api_name \in ApiNames, text \in PatentTexts :
          patent = [NoPatent EXCEPT !.api_name = api_name, !.text = text]
    /\ table = EmptyTable /\ clock = 0 /\ pc = "idle" /\ call = NoCall /\ last = NoResult
    /\ budget = 0
    /\ viruj = <<>> /\ wlock = 0 /\ req = <<>> /\ impl = "se"
    /\ apc = "off" /\ run = NoRun /\ stop_event = FALSE
    /\ doc = <<>> /\ parsed = NotParsed /\ AppOff /\ vcall = NoVcall

NextPatent == Classify \/ GenerateVariants

SpecPatent == InitPatent /\ [][NextPatent]_vars

\* C13: the decision is true exactly when the synthesis score is at least 3,
\* the API is present (exactly or fuzzily) and the formulation score is 0 or
\* five times the synthesis score is at least six times the formulation
\* score; equal non-zero scores give false; an empty text gives both scores 0
\* and the decision false.
C13_DecisionIsTheConjunction ==
    patent.classified =>
        LET m == patent.metadata
        IN /\ patent.is_synthesis <=>
                 /\ m.synthesis_score >= 3
                 /\ (m.api_present \/ m.fuzzy_api_present)
                 /\ (m.formulation_score = 0 \/ 5 * m.synthesis_score >= 6 * m.formulation_score)
           /\ (m.synthesis_score = m.formulation_score /\ m.synthesis_score # 0)
                 => ~patent.is_synthesis
           /\ patent.text = <<>> =>
                 m.synthesis_score = 0 /\ m.formulation_score = 0 /\ ~patent.is_synthesis

\* a text at the boundary of the ratio (6 synthesis hits against 5
\* formulation hits) that names the API is classified as synthesis
C13_Witness ==
    /\ patent.classified
    /\ patent.metadata.synthesis_score = 6
    /\ patent.metadata.formulation_score = 5
    /\ patent.metadata.api_present
    /\ patent.is_synthesis

\* the characters that are whitespace or upper case
IsLowerNoSpace(s) == \A i \in 1..Len(s) : ~IsSpace(s[i]) /\ s[i] \notin Range(UpperAlpha)

\* C20: for a non-empty API name the variants are a non-empty set and every
\* variant is lowercase and holds no whitespace.
C20_VariantsLowercaseNoWhitespace ==
    (patent.generated /\ patent.api_name # <<>>)
        => /\ patent.variants # {}
           /\ \A variant \in patent.variants : IsLowerNoSpace(variant)

\* the variants of a one-word name: non-empty, lowercase, without whitespace
C20_Witness ==
    /\ patent.generated
    /\ patent.api_name = <<"I","s","a","v","u","c","o","n","a","z","o","l","e">>
    /\ <<"i","s","a","v","u","c","o","n","a","z","o","l","e">> \in patent.variants
    /\ <<"c","o","n","a","z","o","l","e">> \in patent.variants
    /\ \A variant \in patent.variants : IsLowerNoSpace(variant)

----------------------------------------------------------------------------
(* query: which stored records are returned                                *)

\* the stored records whose api_name and country contain the trimmed
\* arguments, compared without regard to case
SubstringMatches(rows, api_name, country) ==
    {QueryRow(r) : r \in {x \in Range(rows) :
                            /\ IsSubstr(Lower(Strip(api_name)), Lower(x.api_name))
                            /\ IsSubstr(Lower(Strip(country)), Lower(x.country))}}

\* C14: query with both arguments non-empty returns all stored records, and
\* only those, whose api_name contains the trimmed api argument and whose
\* country contains the trimmed country argument as case-insensitive
\* substrings; no record satisfying both conditions is left out.
C14_QueryReturnsEverySubstringMatch ==
    (/\ last.op = "query" /\ last.outcome = "returned"
     /\ Strip(last.api) # <<>> /\ Strip(last.country) # <<>>)
        => /\ Range(last.rows) = SubstringMatches(last.pre, last.api, last.country)
           /\ Len(last.rows) = Cardinality(SubstringMatches(last.pre, last.api, last.country))

\* a query whose padded, upper-case argument matches a stored record by
\* substring: the record is returned
C14_Witness ==
    /\ last.op = "query" /\ last.outcome = "returned"
    /\ last.api = <<" ","A","S","A"," ">>
    /\ \E i \in 1..Len(last.rows) :
          /\ last.rows[i].api_name = <<"a","s","a">>
          /\ last.rows[i] \in SubstringMatches(last.pre, last.api, last.country)
    /\ Range(last.rows) \subseteq SubstringMatches(last.pre, last.api, last.country)

----------------------------------------------------------------------------
(* insert_into_viruj: the confidence that is stored                        *)

\* C19: every buyer row in the viruj table has an integer confidence between
\* 0 and 100 inclusive, whatever the confidence cell of the parsed table held.
C19_StoredConfidenceWithinRange ==
    \A i \in 1..Len(viruj) : viruj[i].confidence \in 0..100

\* a request has written rows whose confidence cells were percentages in range
C19_Witness ==
    /\ \E p \in Requests :
          /\ req[p].pc = "done" /\ req[p].committed # <<>>
          /\ \E k \in 1..Len(req[p].committed) : req[p].committed[k].confidence = 90
    /\ \A i \in 1..Len(viruj) : viruj[i].confidence \in 0..100

----------------------------------------------------------------------------
(* validate_and_filter_results applied to bounded frames                   *)

RfColumns == <<ColCompany, ColForm, ColStrength, ColConfidence, ColUrl, ColSource, ColInfo>>
SeColumns == <<ColCompany, ColForm, ColStrength, ColInfo>>

\* the API names of the requests
ValidateApis == { <<"A","s","a">>, <<"m","e","t","f","o","r","m","i","n"," ","h","y","d","r","o","c","h","l","o","r","i","d","e">> }

CompanyCells == { <<"A","c","m","e">>, <<" ">>, <<>> }
FormCells == { <<"A","S","A"," ","t","a","b","l","e","t">>, <<"m","e","t","f","o","r","m","i","n"," ","t","a","b","l","e","t">>, <<>> }
StrengthCells == { <<"5"," ","m","g">>, <<"a","s","a"," ","5"," ","m","g">>, <<>> }
ConfidenceCells == { <<"4","5","%">>, <<"4","9">>, <<"5","0">>, <<"5","0","%">>, <<"1","0","0">>, <<"h","i","g","h">>, <<>> }
UrlCells == { <<"h","t","t","p","s",":","/","/","a",".","i","n">>, <<"f","t","p",":","/","/","a",".","i","n">>, <<>> }
InfoCells == { <<"m","a","k","e","r">>, <<>> }

\* a row that passes every check of both validators, for both API names
RfGoodRow ==
    << <<"Z","e","d">>, <<"a","s","a"," ","a","n","d"," ","m","e","t","f","o","r","m","i","n"," ","h","y","d","r","o","c","h","l","o","r","i","d","e"," ","g","e","l">>, <<"1"," ","g">>, <<"8","0">>, <<"h","t","t","p","s",":","/","/","z",".","i","n">>,
       <<"F","D","A">>, <<"m","a","k","e","r">> >>
SeGoodRow == << <<"Z","e","d">>, <<"a","s","a"," ","a","n","d"," ","m","e","t","f","o","r","m","i","n"," ","h","y","d","r","o","c","h","l","o","r","i","d","e"," ","g","e","l">>, <<"1"," ","g">>, <<"m","a","k","e","r">> >>

RfRows ==
    {<<company, form, strength, confidence, url, <<"F","D","A">>, info>> :
        company \in CompanyCells, form \in FormCells, strength \in StrengthCells,
        confidence \in ConfidenceCells, url \in UrlCells, info \in InfoCells}
SeRows ==
    {<<company, form, strength, info>> :
        company \in CompanyCells, form \in FormCells, strength \in StrengthCells,
        info \in InfoCells}

\* parsed tables handed to the validator: one row, or one row followed by a
\* good one; and a table that lacks required columns
ValidateFrames(copy) ==
    LET rows == IF copy = "rf" THEN RfRows ELSE SeRows
        columns == IF copy = "rf" THEN RfColumns ELSE SeColumns
        good == IF copy = "rf" THEN RfGoodRow ELSE SeGoodRow
    IN {Frame(columns, <<row>>) : row \in rows}
       \cup {Frame(columns, <<row, good>>) : row \in rows}
       \cup {Frame(SubSeq(columns, 1, 2), << <<company, form>> >>) :
                company \in CompanyCells, form \in FormCells}

nonValidateVars ==
    <<table, clock, pc, call, last, budget, viruj, wlock, req, apc, run, stop_event,
      doc, parsed, patent, appVars>>

\* validate_and_filter_results(df, api) returns
Validate ==
    /\ vcall.outcome = "none"
    /\ vcall' = [vcall EXCEPT !.outcome = "returned",
                              !.result = validate_and_filter_results(impl, vcall.df, vcall.api)]
    /\ UNCHANGED <<impl, nonValidateVars>>

InitValidate ==
    /\ impl \in {"rf", "se"}
    /\ \E df \in ValidateFrames(impl), api \in ValidateApis :
          vcall = [NoVcall EXCEPT !.df = df, !.api = api]
    /\ table = EmptyTable /\ clock = 0 /\ pc = "idle" /\ call = NoCall /\ last = NoResult
    /\ budget = 0
    /\ viruj = <<>> /\ wlock = 0 /\ req = <<>>
    /\ apc = "off" /\ run = <<>> /\ stop_event = FALSE
    /\ doc = <<>> /\ parsed = NotParsed /\ AppOff /\ patent = NoPatent

NextValidate == Validate

SpecValidate == InitValidate /\ [][NextValidate]_vars

\* the call has returned for a table that has every required column
ValidatedFullTable ==
    /\ vcall.outcome = "returned"
    /\ \A col \in RequiredColumns(impl) : ColIndex(vcall.df.headers, col) # 0

\* the row is among the rows returned
Accepted(row) == \E k \in 1..Len(vcall.result.rows) : vcall.result.rows[k] = row

CompanyOk(headers, row) == Strip(Get(headers, row, ColCompany, <<>>)) # <<>>

KeywordsOk(headers, row) ==
    \A keyword \in api_only_keywords \cup import_keywords :
        ~IsSubstr(keyword, CombinedText(headers, row))

\* a cell without one trailing percent sign, read as an integer; 0 when it is
\* not a number
ParsedConfidence(cell) ==
    LET trimmed == Strip(cell)
        number == IF trimmed # <<>> /\ trimmed[Len(trimmed)] = "%"
                  THEN SubSeq(trimmed, 1, Len(trimmed) - 1) ELSE trimmed
    IN IF IsDigit(number) THEN ToInt(number) ELSE 0

\* C15: in the route finder's validate_and_filter_results the confidence cell
\* is read as an integer after dropping a trailing '%' (0 when not numeric)
\* and a row passes this check exactly when the value is at least 50: "45%"
\* is rejected and "50" is accepted.
C15_ConfidenceAtLeastFifty ==
    (ValidatedFullTable /\ impl = "rf") =>
        \A i \in 1..Len(vcall.df.rows) :
            LET headers == vcall.df.headers
                row == vcall.df.rows[i]
                cell == Get(headers, row, ColConfidence, <<>>)
                others == /\ CompanyOk(headers, row) /\ KeywordsOk(headers, row)
                          /\ ApiMentionedRf(headers, row, vcall.api)
                          /\ UrlOk(headers, row) /\ LocationOk(headers, row)
            IN /\ Accepted(row) => ParsedConfidence(cell) >= 50
               /\ (others /\ ParsedConfidence(cell) >= 50) => Accepted(row)
               /\ cell = <<"4","5","%">> => ~Accepted(row)
               /\ (others /\ cell = <<"5","0">>) => Accepted(row)

\* a row with the confidence cell 50 that passes, before a good row
C15_Witness ==
    /\ ValidatedFullTable /\ impl = "rf"
    /\ Len(vcall.df.rows) = 2
    /\ Get(vcall.df.headers, vcall.df.rows[1], ColConfidence, <<>>) = <<"5","0">>
    /\ Accepted(vcall.df.rows[1])
    /\ vcall.result.rows = vcall.df.rows

\* C16: a row is accepted only if every required column of the
\* implementation is present and non-empty after trimming; a row with a
\* required cell that is empty or whitespace only is dropped.
C16_AcceptedRowsHaveEveryRequiredCell ==
    vcall.outcome = "returned" =>
        \A k \in 1..Len(vcall.result.rows) :
            \A col \in RequiredColumns(impl) :
                /\ ColIndex(vcall.result.headers, col) # 0
                /\ Strip(Get(vcall.result.headers, vcall.result.rows[k], col, <<>>)) # <<>>

\* a row with an empty company cell is dropped and the good row after it kept
C16_Witness ==
    /\ ValidatedFullTable
    /\ Len(vcall.df.rows) = 2
    /\ Strip(Get(vcall.df.headers, vcall.df.rows[1], ColCompany, <<>>)) = <<>>
    /\ vcall.result.rows = << vcall.df.rows[2] >>

\* the fields in which the API has to be named
MentionFields(copy) ==
    IF copy = "rf" THEN {ColProduct, ColForm, ColStrength, ColSource}
    ELSE {ColForm, ColStrength, ColInfo}

\* the lowercase API name or its salt-stripped base name occurs in a field
NameOrBaseMentioned(copy, headers, row, api) ==
    \E col \in MentionFields(copy) :
        \/ IsSubstr(Lower(api), Lower(Get(headers, row, col, <<>>)))
        \/ IsSubstr(normalize_api_name(api)[1], Lower(Get(headers, row, col, <<>>)))

\* the checks of a row other than the API mention
OtherThanMention(copy, headers, row) ==
    /\ CompanyOk(headers, row)
    /\ copy = "rf" => /\ RowConfidence(headers, row) >= MinConfidence
                      /\ KeywordsOk(headers, row)
                      /\ UrlOk(headers, row) /\ LocationOk(headers, row)

\* C17: a row passes the API-mention check exactly when the lowercase API
\* name or its salt-stripped base name occurs in one of the configured
\* fields; for 'metformin hydrochloride' a row naming only 'metformin' passes.
C17_NameOrBaseNameMentioned ==
    ValidatedFullTable =>
        \A i \in 1..Len(vcall.df.rows) :
            LET row == vcall.df.rows[i]
            IN Accepted(row) <=>
                  /\ OtherThanMention(impl, vcall.df.headers, row)
                  /\ NameOrBaseMentioned(impl, vcall.df.headers, row, vcall.api)

\* a row that names the API in its form only, in another case, is accepted
C17_Witness ==
    /\ ValidatedFullTable
    /\ vcall.api = <<"A","s","a">>
    /\ Get(vcall.df.headers, vcall.df.rows[1], ColForm, <<>>) = <<"A","S","A"," ","t","a","b","l","e","t">>
    /\ Get(vcall.df.headers, vcall.df.rows[1], ColStrength, <<>>) = <<"5"," ","m","g">>
    /\ Accepted(vcall.df.rows[1])

\* C18: the validator never raises because of a row (a failing row is dropped
\* and the other rows are returned); a required column that the table lacks
\* is signalled as an error, not as an empty result.
C18_MissingColumnIsAnError ==
    vcall.outcome # "none" =>
        IF \E col \in RequiredColumns(impl) : ColIndex(vcall.df.headers, col) = 0
        THEN vcall.outcome = "raised"
        ELSE /\ vcall.outcome = "returned"
             /\ vcall.result.rows =
                    SelectSeq(vcall.df.rows,
                              LAMBDA row : RowValid(impl, vcall.df.headers, row, vcall.api))

\* a failing row is dropped and the good row after it is still returned
C18_Witness ==
    /\ ValidatedFullTable
    /\ Len(vcall.df.rows) = 2
    /\ ~RowValid(impl, vcall.df.headers, vcall.df.rows[1], vcall.api)
    /\ vcall.result = Frame(vcall.df.headers, << vcall.df.rows[2] >>)

----------------------------------------------------------------------------
(* normalize_api_name and _generate_api_variants applied to built names    *)

Pads == { <<>>, <<" ">> }
Stems ==
    { <<"A","s","p","i","r","i","n">>, <<"l","y","s","i","n","e">>, <<"D","o","p","a">>, <<"z","i","n","c"," ","s","u","l","f","a","t","e">>, <<"d","-","A","l","a","n","i","n","e">>, <<"I","s","a","v","u","c","o","n","a","z","o","l","e">> }
Salts == { <<>>, <<" ","H","C","l">>, <<" ","h","y","d","r","o","c","h","l","o","r","i","d","e">>, <<" ","s","u","l","f","a","t","e">>, <<" ","a","c","e","t","a","t","e">> }

\* API names: a stem, a salt or none, and spaces around them or none
BuiltNames ==
    {before \o stem \o salt \o after :
        before \in Pads, stem \in Stems, salt \in Salts, after \in Pads}

\* normalize_api_name(api_name) returns
Normalize ==
    /\ ~patent.normalized
    /\ patent' = [patent EXCEPT !.normalized = TRUE,
                                !.names = normalize_api_name(patent.api_name)]
    /\ UNCHANGED nonPatentVars

InitNames ==
    /\ \E api_name \in BuiltNames : patent = [NoPatent EXCEPT !.api_name = api_name]
    /\ table = EmptyTable /\ clock = 0 /\ pc = "idle" /\ call = NoCall /\ last = NoResult
    /\ budget = 0
    /\ viruj = <<>> /\ wlock = 0 /\ req = <<>> /\ impl = "se"
    /\ apc = "off" /\ run = NoRun /\ stop_event = FALSE
    /\ doc = <<>> /\ parsed = NotParsed /\ AppOff /\ vcall = NoVcall

NextNames == Normalize \/ GenerateVariants

SpecNames == InitNames /\ [][NextNames]_vars

\* the name without its trailing salt suffix: the first suffix of the list
\* that the name ends with is cut off the end, and nothing else is touched
WithoutTrailingSalt(name) ==
    LET hits == {i \in 1..Len(salt_suffixes) : EndsWith(name, salt_suffixes[i])}
    IN IF hits = {} THEN name
       ELSE LET suffix == salt_suffixes[CHOOSE i \in hits : \A j \in hits : i <= j]
            IN SubSeq(name, 1, Len(name) - Len(suffix))

\* C21: normalize_api_name returns full_name equal to the trimmed, lowercased
\* input and base_name equal to full_name with only its trailing salt suffix
\* removed; the characters before that suffix are kept unchanged, also when
\* the salt word occurs earlier in the name.
C21_TrimmedNameWithoutTrailingSalt ==
    patent.normalized =>
        LET full_name == Strip(Lower(patent.api_name))
        IN /\ patent.names[2] = full_name
           /\ patent.names[1] = WithoutTrailingSalt(full_name)

\* a name with a salt suffix and no spaces around it: the suffix is removed
C21_Witness ==
    /\ patent.normalized
    /\ patent.api_name = <<"A","s","p","i","r","i","n"," ","H","C","l">>
    /\ patent.names = << <<"a","s","p","i","r","i","n">>, <<"a","s","p","i","r","i","n"," ","h","c","l">> >>

\* C22: for an API name whose alphanumeric-only form has at most 6
\* characters the variants are a subset of {base_name, full_name,
\* alphanumeric-only base_name}; no shorter fragment of the name is added.
C22_ShortNamesGetNoFragments ==
    LET names == normalize_api_name(patent.api_name)
    IN (patent.generated /\ Len(KeepAlnum(names[1])) <= 6)
           => patent.variants \subseteq {names[1], names[2], KeepAlnum(names[1])}

\* a short name that starts with none of the prefixes: only the base name
\* and the full name are returned
C22_Witness ==
    /\ patent.generated
    /\ patent.api_name = <<"z","i","n","c"," ","s","u","l","f","a","t","e">>
    /\ patent.variants = { <<"z","i","n","c">>, <<"z","i","n","c"," ","s","u","l","f","a","t","e">> }

----------------------------------------------------------------------------
(* run_full_analysis: the result of an analysis that finds nothing         *)

\* C23: a request that finds nothing is reported as a successful, empty
\* result with an explanatory reason and not as an error: run_full_analysis
\* that finds no relevant synthesis patent returns a result marked
\* successful, with the reason and the retry suggestions.
C23_NothingFoundIsASuccess ==
    (apc = "done" /\ run.kind = "analysis" /\ run.result = "no_patents")
        => /\ run.success = "True"
           /\ run.suggestions

\* an analysis whose links were all judged irrelevant returned, with the
\* retry suggestions in its result
C23_Witness ==
    /\ apc = "done" /\ run.kind = "analysis" /\ run.result = "no_patents"
    /\ run.links > 0 /\ run.valid = 0
    /\ run.suggestions

----------------------------------------------------------------------------
(* _bulk_insert under repeated lock errors                                 *)

InitBulk ==
    /\ table \in {EmptyTable, LegacyTable}
    /\ clock = MaxClock - 1
    /\ budget = MaxRetries
    /\ pc = "idle"
    /\ call = NoCall
    /\ last = NoResult
    /\ InitOthersOfMfr

NextBulk ==
    \/ \E records \in MfrBatches : InsertRecords(records)
    \/ \E sheet \in MfrSheets : SyncFromExcel(sheet)
    \/ BulkCommit
    \/ \E k \in 0..Len(call.payloads) : BulkLocked(k)
    \/ BulkError

SpecBulk == InitBulk /\ [][NextBulk]_vars

\* the rows that the call added to the table
RowsAdded == SubSeq(table, Len(last.pre) + 1, Len(table))

\* C24: _bulk_insert makes at most 5 attempts; when it returns after one or
\* more attempts failed and were rolled back, the count returned is the
\* number of rows the committed attempt added to the table and inserted_rows
\* lists each of those rows once, nothing of a rolled-back attempt included.
C24_CountsOnlyTheCommittedAttempt ==
    (pc = "idle" /\ last.op \in {"insert_records", "sync_from_excel"})
        => /\ last.attempts <= 5
           /\ (last.outcome = "returned" /\ last.attempts > 1)
                 => /\ last.count = Len(RowsAdded)
                    /\ last.op = "insert_records" => last.rows = RowsAdded

\* a call that was retried after a lock error at its first statement and
\* then committed new rows: nothing had been counted in the failed attempt
C24_Witness ==
    /\ pc = "idle" /\ last.op = "insert_records" /\ last.outcome = "returned"
    /\ last.attempts > 1
    /\ RowsAdded # <<>>
    /\ last.count = Len(RowsAdded) /\ last.rows = RowsAdded

\* C25: a batch is written atomically: when insert_records / _bulk_insert
\* ends by raising, the table holds exactly the rows it held before the call;
\* when it returns, every non-duplicate row of the batch is stored.
C25_BatchIsAtomic ==
    (pc = "idle" /\ last.op \in {"insert_records", "sync_from_excel"})
        => /\ last.outcome = "raised" => table = last.pre
           /\ last.outcome = "returned"
                 => /\ SubSeq(table, 1, Len(last.pre)) = last.pre
                    /\ RowsAdded = FreshPayloads(last.pre, last.payloads)

\* the lock error came back on the fifth attempt of a batch with new rows:
\* the call raised and the table is as it was
C25_Witness ==
    /\ pc = "idle" /\ last.op = "insert_records" /\ last.outcome = "raised"
    /\ last.attempts = MaxRetries
    /\ FreshPayloads(last.pre, last.payloads) # <<>>
    /\ table = last.pre

----------------------------------------------------------------------------
(* _is_source_relevant_enhanced: which sources are accepted                *)

\* scores are integers: bert_score in hundredths, final_score in thousandths
\* (0.4, 0.3, 0.2 and 0.1 of scores in hundredths)
FinalScore(bert_score, content_score, sections_score, images_score) ==
    4 * bert_score + 3 * content_score + 2 * sections_score + images_score

\* (final_score >= 0.35 and bert_score >= 0.2) or (final_score >= 0.5 and
\* bert_score >= 0.1)
ScoresMet(final_score, bert_score) ==
    \/ final_score >= 350 /\ bert_score >= 20
    \/ final_score >= 500 /\ bert_score >= 10

Min(a, b) == IF a <= b THEN a ELSE b

Rejected == [relevant |-> FALSE, final_score |-> 0, confidence |-> "none", fallback_reason |-> "none"]

\* the override that accepts a source whose scores fall short, if any
FallbackReason(met, strong_content, keyword) ==
    IF met THEN "none"
    ELSE IF strong_content THEN "content_override"
    ELSE IF keyword THEN "keyword_override"
    ELSE "none"

\* the value returned for an extracted source that passed the synthesis check
Accept(met, fallback_reason, final_score) ==
    [relevant |-> met \/ fallback_reason # "none",
     final_score |-> final_score,
     confidence |-> IF fallback_reason # "none" THEN "low" ELSE "high",
     fallback_reason |-> fallback_reason]

\* a judgement by the scores alone, without the overrides
JudgeByScoresAlone(extracted, answer, bert_score, content_score, sections_score, images_score) ==
    IF ~extracted \/ ~answer[1] THEN Rejected
    ELSE Accept(ScoresMet(FinalScore(bert_score, content_score, sections_score, images_score),
                          bert_score),
                "none",
                FinalScore(bert_score, content_score, sections_score, images_score))

\* the part of _is_source_relevant_enhanced after the text was extracted
\* and classified (answer)
Judge(extracted, answer, bert_score, content_score, sections_score, images_score) ==
    IF ~extracted \/ ~answer[1] THEN Rejected
    ELSE Accept(ScoresMet(FinalScore(bert_score, content_score, sections_score, images_score),
                          bert_score),
                FallbackReason(
                    ScoresMet(FinalScore(bert_score, content_score, sections_score, images_score),
                              bert_score),
                    content_score >= 40 /\ sections_score >= 20,
                    /\ answer[2].synthesis_score >= SYNTHESIS_KEYWORD_THRESHOLD
                    /\ (answer[2].api_present \/ answer[2].fuzzy_api_present)),
                FinalScore(bert_score, content_score, sections_score, images_score))

\* _is_source_relevant_enhanced(url, api_name) for a source whose extraction
\* succeeded or not, whose text is text and whose similarity and content
\* scores are as given
is_source_relevant_enhanced(extracted, text, api_name, bert_score, content_score, sections_found, images) ==
    Judge(extracted, is_synthesis_patent_enhanced(text, api_name), bert_score, content_score,
          sections_found * 20, Min(20, images * 5))

\* texts of sources: synthesis and formulation hits, and a mention or none
SourceTexts ==
    {Words(SynthesisWords, hits[1]) \o Words(FormulationWords, hits[2]) \o mention :
        hits \in { <<0, 0>>, <<2, 0>>, <<3, 0>>, <<3, 3>>, <<6, 5>> },
        mention \in { <<>>, <<" ","o","f"," ","a","s","p","i","r","i","n">> }}

BertScores == {0, 9, 10, 19, 20, 35, 100}
ContentScores == {0, 39, 40, 100}
MaxSections == 2
MaxImages == 5

\* the source is judged
IsSourceRelevant ==
    /\ ~patent.judged
    /\ patent' = [patent EXCEPT
                     !.judged = TRUE,
                     !.verdict = is_source_relevant_enhanced(
                                     patent.extracted, patent.text, patent.api_name,
                                     patent.scores.bert, patent.scores.content,
                                     patent.scores.sections, patent.scores.images)]
    /\ UNCHANGED nonPatentVars

\* the sources handed to the function
Sources ==
    {[NoPatent EXCEPT !.api_name = <<"a","s","p","i","r","i","n">>, !.text = text, !.extracted = extracted,
                      !.scores = [bert |-> bert, content |-> content,
                                  sections |-> sections, images |-> images]] :
        text \in SourceTexts, extracted \in BOOLEAN, bert \in BertScores,
        content \in ContentScores, sections \in 0..MaxSections, images \in {0, 2, MaxImages}}

InitSource ==
    /\ patent \in Sources
    /\ table = EmptyTable /\ clock = 0 /\ pc = "idle" /\ call = NoCall /\ last = NoResult
    /\ budget = 0
    /\ viruj = <<>> /\ wlock = 0 /\ req = <<>> /\ impl = "se"
    /\ apc = "off" /\ run = NoRun /\ stop_event = FALSE
    /\ doc = <<>> /\ parsed = NotParsed /\ AppOff /\ vcall = NoVcall

NextSource == IsSourceRelevant

SpecSource == InitSource /\ [][NextSource]_vars

\* C30: a source whose content was extracted without error is accepted as
\* relevant exactly when the decision of _is_synthesis_patent_enhanced is
\* true; the similarity score and the final score never cause a rejection,
\* they decide whether the confidence label is 'high' (thresholds met) or
\* 'low' (accepted through an override).
C30_AcceptedIffClassifiedAsSynthesis ==
    (patent.judged /\ patent.extracted) =>
        LET decision == is_synthesis_patent_enhanced(patent.text, patent.api_name)[1]
            met == ScoresMet(patent.verdict.final_score, patent.scores.bert)
        IN /\ patent.verdict.relevant <=> decision
           /\ patent.verdict.relevant =>
                 /\ patent.verdict.confidence = "high" <=> met
                 /\ patent.verdict.confidence = "low" <=>
                        (~met /\ patent.verdict.fallback_reason # "none")

\* a synthesis text with a similarity score of 0 and no content is accepted
\* through the keyword override, with the label 'low'
C30_Witness ==
    /\ patent.judged /\ patent.extracted
    /\ patent.scores.bert = 0 /\ patent.scores.content = 0
    /\ patent.verdict.relevant
    /\ patent.verdict.fallback_reason = "keyword_override"
    /\ patent.verdict.confidence = "low"

----------------------------------------------------------------------------
(* The web application: sessions, workers, progress streams, stop requests *)

\* threads started, streams opened and progress events per run
MaxWorkers == 2
MaxStreams == 2
MaxProgress == 1

nonAppVars ==
    <<table, clock, pc, call, last, budget, viruj, wlock, req, impl, apc, run, stop_event,
      doc, parsed, patent, vcall>>

\* initialize_session(api_name, session_id): the data of a new session
NewSession(api_name) ==
    [api_name |-> api_name, analysis_complete |-> FALSE, chat_history |-> <<>>,
     results |-> "None", ai_predicted_route |-> "None", prediction_complete |-> FALSE]

\* update_session_data(session_id, data) with the keys analysis_complete and
\* results: nothing is stored for an unknown session
UpdateAnalysis(storage, sid, results) ==
    IF storage[sid] = Nil THEN storage
    ELSE [storage EXCEPT ![sid] = [@ EXCEPT !.analysis_complete = TRUE, !.results = results]]

\* update_session_data(session_id, data) with the keys ai_predicted_route and
\* prediction_complete
UpdatePrediction(storage, sid, route) ==
    IF storage[sid] = Nil THEN storage
    ELSE [storage EXCEPT ![sid] = [@ EXCEPT !.ai_predicted_route = route,
                                           !.prediction_complete = TRUE]]

\* Queue(): items are the items waiting, log is every item put so far
NewQueue == [items |-> <<>>, log |-> <<>>]

\* progress_queues[session_id].put(item)
Put(sid, item) ==
    [queues EXCEPT ![progress_queues[sid]] =
        [items |-> Append(@.items, item), log |-> Append(@.log, item)]]

NewWorker(kind, sid, at, event) ==
    [kind |-> kind, sid |-> sid, pc |-> at, event |-> event, queue |-> Len(queues) + 1,
     progress |-> 0, result |-> "none", sentinel |-> 0]

\* worker w is inside run_full_analysis or predict_synthesis_route, which
\* checks the Event it was handed
InFlight(w) == workers[w].pc = "running"

\* POST /api/analyze: a new session with its Event and Queue, and the thread
AnalyzeSynthesis(sid) ==
    /\ Len(workers) < MaxWorkers
    /\ session_storage[sid] = Nil
    /\ session_storage' = [session_storage EXCEPT ![sid] = NewSession("analyzed")]
    /\ events' = Append(events, FALSE)
    /\ queues' = Append(queues, NewQueue)
    /\ stop_events' = [stop_events EXCEPT ![sid] = Len(events) + 1]
    /\ progress_queues' = [progress_queues EXCEPT ![sid] = Len(queues) + 1]
    /\ workers' = Append(workers, NewWorker("analysis", sid, "start", 0))
    /\ UNCHANGED <<streams, stoplog, nonAppVars>>

\* POST /api/predict_route with the id of a session or a new id: the session
\* is initialized when the id has no progress queue; a new Event and a new
\* Queue take the places of the session's entries; the thread is started
PredictRoute(sid) ==
    /\ Len(workers) < MaxWorkers
    /\ session_storage' =
           IF progress_queues[sid] = 0
           THEN [session_storage EXCEPT ![sid] = NewSession("predicted")]
           ELSE session_storage
    /\ events' = Append(events, FALSE)
    /\ queues' = Append(queues, NewQueue)
    /\ stop_events' = [stop_events EXCEPT ![sid] = Len(events) + 1]
    /\ progress_queues' = [progress_queues EXCEPT ![sid] = Len(queues) + 1]
    /\ workers' = Append(workers, NewWorker("prediction", sid, "running", Len(events) + 1))
    /\ UNCHANGED <<streams, stoplog, nonAppVars>>

\* POST /api/stop_analysis or /api/stop_prediction for a session id that was
\* handed out: the Event found under the id is set, or the answer is 404
StopRequest(sid) ==
    /\ session_storage[sid] # Nil
    /\ stoplog.status = 0
    /\ IF stop_events[sid] # 0
       THEN /\ events' = [events EXCEPT ![stop_events[sid]] = TRUE]
            /\ stoplog' = [status |-> 200, event |-> stop_events[sid]]
       ELSE /\ stoplog' = [status |-> 404, event |-> 0]
            /\ UNCHANGED events
    /\ UNCHANGED <<session_storage, stop_events, progress_queues, queues, workers, streams,
                   nonAppVars>>

\* run_analysis_in_thread begins: stop_events[session_id] is looked up for the
\* call of run_full_analysis; a missing entry is a KeyError
ThreadStarts(w) ==
    /\ workers[w].pc = "start"
    /\ workers' = [workers EXCEPT ![w] =
                      IF stop_events[workers[w].sid] = 0 THEN [@ EXCEPT !.pc = "except"]
                      ELSE [@ EXCEPT !.pc = "running", !.event = stop_events[workers[w].sid]]]
    /\ UNCHANGED <<session_storage, stop_events, progress_queues, events, queues, streams,
                   stoplog, nonAppVars>>

\* progress_callback: the event goes to the queue found under the session id,
\* if there is one
Progress(w) ==
    /\ workers[w].pc = "running"
    /\ workers[w].progress < MaxProgress
    /\ workers' = [workers EXCEPT ![w].progress = @ + 1]
    /\ queues' = IF progress_queues[workers[w].sid] # 0
                 THEN Put(workers[w].sid, "progress") ELSE queues
    /\ UNCHANGED <<session_storage, stop_events, progress_queues, events, streams, stoplog,
                   nonAppVars>>

\* run_full_analysis / predict_synthesis_route returns: the stopped result
\* only when the worker's Event is set
RunReturns(w, result) ==
    /\ workers[w].pc = "running"
    /\ result = "stopped" => events[workers[w].event]
    /\ workers' = [workers EXCEPT ![w] = [@ EXCEPT !.pc = "update", !.result = result]]
    /\ UNCHANGED <<session_storage, stop_events, progress_queues, events, queues, streams,
                   stoplog, nonAppVars>>

\* update_session_data with the result of the run
StoreResult(w) ==
    /\ workers[w].pc = "update"
    /\ session_storage' =
           IF workers[w].kind = "analysis"
           THEN UpdateAnalysis(session_storage, workers[w].sid, workers[w].result)
           ELSE UpdatePrediction(session_storage, workers[w].sid, workers[w].result)
    /\ workers' = [workers EXCEPT ![w].pc = "notify"]
    /\ UNCHANGED <<stop_events, progress_queues, events, queues, streams, stoplog, nonAppVars>>

\* the completion event is put on the queue found under the session id: the
\* analysis thread does not test that there is one (KeyError), the prediction
\* thread does
Notify(w) ==
    /\ workers[w].pc = "notify"
    /\ IF progress_queues[workers[w].sid] # 0
       THEN /\ queues' = Put(workers[w].sid, IF workers[w].kind = "analysis"
                                             THEN "complete" ELSE "prediction complete")
            /\ workers' = [workers EXCEPT ![w].pc = "finally"]
       ELSE /\ workers' = [workers EXCEPT ![w].pc =
                              IF workers[w].kind = "analysis" THEN "except" ELSE "finally"]
            /\ UNCHANGED queues
    /\ UNCHANGED <<session_storage, stop_events, progress_queues, events, streams, stoplog,
                   nonAppVars>>

\* except branch of run_analysis_in_thread: the failure is stored as the
\* result and the failure event is put on the queue; without a queue the put
\* is a KeyError that leaves the handler
AnalysisFailed(w) ==
    /\ workers[w].pc = "except"
    /\ session_storage' = UpdateAnalysis(session_storage, workers[w].sid, "failed")
    /\ queues' = IF progress_queues[workers[w].sid] # 0
                 THEN Put(workers[w].sid, "failed") ELSE queues
    /\ workers' = [workers EXCEPT ![w] = [@ EXCEPT !.pc = "finally", !.result = "failed"]]
    /\ UNCHANGED <<stop_events, progress_queues, events, streams, stoplog, nonAppVars>>

\* finally: the sentinel is put on the queue found under the session id, if
\* there is one; sentinel records the queue that got it
PutSentinel(w) ==
    /\ workers[w].pc = "finally"
    /\ queues' = IF progress_queues[workers[w].sid] # 0
                 THEN Put(workers[w].sid, "None") ELSE queues
    /\ workers' = [workers EXCEPT ![w] = [@ EXCEPT !.pc = "del event",
                                                  !.sentinel = progress_queues[workers[w].sid]]]
    /\ UNCHANGED <<session_storage, stop_events, progress_queues, events, streams, stoplog,
                   nonAppVars>>

\* finally: del stop_events[session_id]
DelStopEvent(w) ==
    /\ workers[w].pc = "del event"
    /\ stop_events' = [stop_events EXCEPT ![workers[w].sid] = 0]
    /\ workers' = [workers EXCEPT ![w].pc = "del queue"]
    /\ UNCHANGED <<session_storage, progress_queues, events, queues, streams, stoplog,
                   nonAppVars>>

\* finally: del progress_queues[session_id]; the thread ends
DelQueue(w) ==
    /\ workers[w].pc = "del queue"
    /\ progress_queues' = [progress_queues EXCEPT ![workers[w].sid] = 0]
    /\ workers' = [workers EXCEPT ![w].pc = "done"]
    /\ UNCHANGED <<session_storage, stop_events, events, queues, streams, stoplog, nonAppVars>>

\* GET /api/progress/<session_id>: without a queue under the id the stream
\* yields the invalid-session event and ends
OpenStream(sid) ==
    /\ Len(streams) < MaxStreams
    /\ session_storage[sid] # Nil
    /\ streams' = Append(streams,
                         IF progress_queues[sid] = 0
                         THEN [sid |-> sid, queue |-> 0, pc |-> "ended",
                               received |-> <<"Invalid session">>]
                         ELSE [sid |-> sid, queue |-> progress_queues[sid], pc |-> "get",
                               received |-> <<>>])
    /\ UNCHANGED <<session_storage, stop_events, progress_queues, events, queues, workers,
                   stoplog, nonAppVars>>

\* queue.get() returns an item: an event is yielded, the sentinel ends the loop
StreamGets(i) ==
    /\ streams[i].pc = "get"
    /\ queues[streams[i].queue].items # <<>>
    /\ queues' = [queues EXCEPT ![streams[i].queue].items = Tail(@)]
    /\ streams' = [streams EXCEPT ![i] =
                      IF Head(queues[streams[i].queue].items) = "None"
                      THEN [@ EXCEPT !.pc = "cleanup"]
                      ELSE [@ EXCEPT !.received =
                                        Append(@, Head(queues[streams[i].queue].items))]]
    /\ UNCHANGED <<session_storage, stop_events, progress_queues, events, workers, stoplog,
                   nonAppVars>>

\* after the loop the stream deletes the queue found under the session id
StreamEnds(i) ==
    /\ streams[i].pc = "cleanup"
    /\ progress_queues' = [progress_queues EXCEPT ![streams[i].sid] = 0]
    /\ streams' = [streams EXCEPT ![i].pc = "ended"]
    /\ UNCHANGED <<session_storage, stop_events, events, queues, workers, stoplog, nonAppVars>>

InitApp ==
    /\ AppOff
    /\ table = EmptyTable /\ clock = 0 /\ pc = "idle" /\ call = NoCall /\ last = NoResult
    /\ budget = 0
    /\ viruj = <<>> /\ wlock = 0 /\ req = <<>> /\ impl = "se"
    /\ apc = "off" /\ run = NoRun /\ stop_event = FALSE
    /\ doc = <<>> /\ parsed = NotParsed /\ patent = NoPatent /\ vcall = NoVcall

\* a step of a worker thread
WorkerStep(w) ==
    \/ ThreadStarts(w)
    \/ Progress(w)
    \/ \E result \in {"result", "stopped"} : RunReturns(w, result)
    \/ StoreResult(w)
    \/ Notify(w)
    \/ AnalysisFailed(w)
    \/ PutSentinel(w)
    \/ DelStopEvent(w)
    \/ DelQueue(w)

\* a step of a progress stream
StreamStep(i) == StreamGets(i) \/ StreamEnds(i)

NextApp ==
    \/ \E sid \in Sids : AnalyzeSynthesis(sid)
    \/ \E sid \in Sids : PredictRoute(sid)
    \/ \E sid \in Sids : StopRequest(sid)
    \/ \E sid \in Sids : OpenStream(sid)
    \/ \E w \in 1..Len(workers) : ThreadStarts(w)
    \/ \E w \in 1..Len(workers) : Progress(w)
    \/ \E w \in 1..Len(workers), result \in {"result", "stopped"} : RunReturns(w, result)
    \/ \E w \in 1..Len(workers) : StoreResult(w)
    \/ \E w \in 1..Len(workers) : Notify(w)
    \/ \E w \in 1..Len(workers) : AnalysisFailed(w)
    \/ \E w \in 1..Len(workers) : PutSentinel(w)
    \/ \E w \in 1..Len(workers) : DelStopEvent(w)
    \/ \E w \in 1..Len(workers) : DelQueue(w)
    \/ \E i \in 1..Len(streams) : StreamGets(i)
    \/ \E i \in 1..Len(streams) : StreamEnds(i)

SpecApp == InitApp /\ [][NextApp]_vars

\* every started thread is scheduled, and the client of an open stream keeps
\* reading it
FairApp ==
    /\ \A w \in 1..MaxWorkers : WF_vars(w <= Len(workers) /\ WorkerStep(w))
    /\ \A i \in 1..MaxStreams : WF_vars(i <= Len(streams) /\ StreamStep(i))

SpecAppFair == InitApp /\ [][NextApp]_vars /\ FairApp

----------------------------------------------------------------------------
(* Claims about the web application *)

\* the threads started by /api/analyze whose run has returned or raised and
\* which have ended
EndedAnalyses == {w \in 1..Len(workers) : workers[w].kind = "analysis" /\ workers[w].pc = "done"}

\* the queues created by /api/analyze
AnalysisQueues == {workers[w].queue : w \in {v \in 1..Len(workers) : workers[v].kind = "analysis"}}

\* no event was put on queue q after a sentinel
NothingAfterSentinel(q) ==
    \A k \in 1..Len(queues[q].log) :
        queues[q].log[k] = "None" =>
            \A j \in (k + 1)..Len(queues[q].log) : queues[q].log[j] = "None"

\* an ended analysis has put its sentinel on the queue it found under the
\* session id, and no event followed on that queue
OneSentinelAndNothingAfterIt ==
    \A w \in EndedAnalyses :
        /\ workers[w].sentinel # 0
        /\ NothingAfterSentinel(workers[w].sentinel)

LateStreamIsInvalid ==
    \A i \in 1..Len(streams) :
        streams[i].queue = 0 => streams[i].pc = "ended" /\ streams[i].received = <<"Invalid session">>

\* stream i was opened on the queue of an analysis
OnAnalysisQueue(i) == i <= Len(streams) /\ streams[i].queue \in AnalysisQueues

\* stream i was opened and has ended
StreamEnded(i) == i <= Len(streams) /\ streams[i].pc = "ended"

\* C26: an analysis whose run returned or raised has put exactly one sentinel
\* on its session's queue and no event after it; every progress stream opened
\* on the queue of an analysis eventually ends; a stream opened when the
\* session has no queue any more yields the invalid-session event and ends.
C26_EveryStreamEnds ==
    /\ [](OneSentinelAndNothingAfterIt /\ LateStreamIsInvalid)
    /\ \A i \in 1..MaxStreams :
           [](OnAnalysisQueue(i) => <>StreamEnded(i))

\* One analysis, one stream: the stream has received the completion event and
\* ended after the only sentinel; a second stream opened after the cleanup was
\* told that the session is invalid.
C26_Witness ==
    /\ Len(workers) = 1 /\ workers[1].kind = "analysis" /\ workers[1].pc = "done"
    /\ Len(streams) = 2
    /\ streams[1].queue = workers[1].queue /\ streams[1].pc = "ended"
    /\ streams[1].received = <<"progress", "complete">>
    /\ queues[workers[1].queue].log = <<"progress", "complete", "None">>
    /\ streams[2].received = <<"Invalid session">> /\ streams[2].pc = "ended"

\* a consumer of stream i, opened on the queue of an analysis, has received
\* the completion event, the failure event or the end of the stream
ConsumerSawTheEnd(i) ==
    /\ streams[i].queue \in AnalysisQueues
    /\ \/ \E k \in 1..Len(streams[i].received) : streams[i].received[k] \in {"complete", "failed"}
       \/ streams[i].pc \in {"cleanup", "ended"}

\* get_session_data(sid) reports analysis_complete = True with results set
ReportsResults(sid) ==
    /\ session_storage[sid] # Nil
    /\ session_storage[sid].analysis_complete
    /\ session_storage[sid].results # "None"

\* C27: whenever a consumer of an analysis session has received the
\* completion event, the failure event or the end of the stream, the session
\* reports analysis_complete = True with results set, from then on.
C27_ResultsStoredBeforeTheEnd ==
    \A i \in 1..Len(streams) : ConsumerSawTheEnd(i) => ReportsResults(streams[i].sid)

\* The consumer of an analysis has the completion event and the stream has
\* ended; the session holds the result of the run.
C27_Witness ==
    /\ Len(streams) >= 1 /\ streams[1].pc = "ended"
    /\ streams[1].received = <<"progress", "complete">>
    /\ Len(workers) = 1 /\ workers[1].kind = "analysis" /\ workers[1].pc = "done"
    /\ session_storage[1].analysis_complete /\ session_storage[1].results = "result"

\* the fields of a session that starting a prediction is to leave alone
AnalysisData(sid) ==
    <<session_storage[sid].api_name, session_storage[sid].analysis_complete,
      session_storage[sid].results, session_storage[sid].chat_history>>

\* C28: predict_route with the id of a session whose data exists leaves the
\* session's api_name, analysis_complete, results and chat_history unchanged.
C28_PredictionKeepsSessionData ==
    [][\A sid \in Sids :
           PredictRoute(sid) /\ session_storage[sid] # Nil => AnalysisData(sid)' = AnalysisData(sid)]_vars

\* A prediction was started on the session of an analysis that was still
\* running: the session data of the analysis is in place.
C28_Witness ==
    /\ Len(workers) = 2 /\ workers[1].kind = "analysis" /\ workers[2].kind = "prediction"
    /\ workers[1].pc = "running" /\ workers[2].pc = "running"
    /\ session_storage[1] = NewSession("analyzed")

\* a stop request for the session is answered 200 and sets the Event that
\* every worker in flight for the session checks
StopReachesEveryWorker(sid) ==
    StopRequest(sid) =>
        \A w \in 1..Len(workers) :
            workers[w].sid = sid /\ InFlight(w) =>
                stoplog'.status = 200 /\ events'[workers[w].event]

\* worker w, at the end of its thread, removes neither the Event nor the
\* Queue of another worker in flight for the same session
FinishKeepsTheOthers(w) ==
    \A v \in 1..Len(workers) :
        v # w /\ workers[v].sid = workers[w].sid /\ InFlight(v) =>
            /\ DelStopEvent(w) => stop_events[workers[w].sid] # workers[v].event
            /\ DelQueue(w) => progress_queues[workers[w].sid] # workers[v].queue

\* C29: while a worker is in flight for a session, a stop request for the
\* session is accepted and sets the Event that this worker checks, and a
\* worker that finishes does not remove the Event or the Queue of another
\* worker in flight for the session.
C29_StopReachesTheWorkerInFlight ==
    [][/\ \A sid \in Sids : StopReachesEveryWorker(sid)
       /\ \A w \in 1..Len(workers) : FinishKeepsTheOthers(w)]_vars

\* One analysis in flight, a stop request answered 200 that set the Event the
\* analysis checks, and the run returned the stopped result.
C29_Witness ==
    /\ Len(workers) = 1 /\ workers[1].kind = "analysis"
    /\ stoplog = [status |-> 200, event |-> workers[1].event]
    /\ events[workers[1].event]
    /\ workers[1].result = "stopped" /\ workers[1].pc = "done"
====
